---------------------------- MODULE Spec2Model ----------------------------
(***************************************************************************)
(* State-machine model of the YouTube Music subscription manager           *)
(* (src/src/main.rs, src/src/youtube.rs).                                  *)
(*                                                                         *)
(* Strings are sequences of one-character strings, so that case folding,   *)
(* concatenation and containment are computed as the code computes them.   *)
(* Option<T> is a set with at most one element: None == {}, Some(x) == {x}.*)
(* An error message of the remote subscribe call is the set of the        *)
(* classification markers it contains (the code only ever asks             *)
(* `error_msg.contains(marker)`).                                          *)
(***************************************************************************)
EXTENDS Integers, Sequences, FiniteSets, TLC

(***************************************************************************)
(* Bounds of the model.                                                    *)
(***************************************************************************)
MaxRetries == 4        \* largest max_subscription_retries explored
MaxMarkers == 2        \* most classification markers in one error message
MaxConfig == 2         \* most names in config.artists
MaxTargets == 2        \* most names in a parsed artists file
MaxSyncRetries == 1    \* largest max_subscription_retries of a sync run
MaxCacheRows == 1      \* most rows in the cache when a command starts
CacheExpiryDays == 1   \* config.database.cache_expiry_days
MaxCacheCalls == 3     \* most calls made to the cache on its own
MaxNow == 2            \* last day of the clock of the cache on its own
MaxOffset == 2         \* largest offset of a page request
MaxLimit == 2          \* largest limit of a page request
MaxItems == 2          \* most items in one search response

(***************************************************************************)
(* Option<T>                                                               *)
(***************************************************************************)
None == {}
Some(x) == {x}
IsSome(o) == o # {}
Unwrap(o) == CHOOSE x \in o : TRUE

(***************************************************************************)
(* Strings                                                                 *)
(***************************************************************************)
\* The lowercase of every ASCII capital
LowerOf ==
    [A |-> "a", B |-> "b", C |-> "c", D |-> "d", E |-> "e", F |-> "f", G |-> "g",
     H |-> "h", I |-> "i", J |-> "j", K |-> "k", L |-> "l", M |-> "m", N |-> "n",
     O |-> "o", P |-> "p", Q |-> "q", R |-> "r", S |-> "s", T |-> "t", U |-> "u",
     V |-> "v", W |-> "w", X |-> "x", Y |-> "y", Z |-> "z"]

\* char::to_lowercase for the characters the model uses
LowerChar(c) == IF c \in DOMAIN LowerOf THEN LowerOf[c] ELSE c

\* str::to_lowercase
ToLowercase(s) == [k \in 1..Len(s) |-> LowerChar(s[k])]

\* str::contains(&str)
StrContains(h, n) ==
    \E k \in 0..(Len(h) - Len(n)) : SubSeq(h, k + 1, k + Len(n)) = n

\* All sequences over S of length at most n
SeqsUpTo(S, n) == UNION {[1..k -> S] : k \in 0..n}


(***************************************************************************)
(* The names and the remote platform the model explores                    *)
(***************************************************************************)
Tool == <<"T", "o", "o", "l">>
tool == <<"t", "o", "o", "l">>
Muse == <<"M", "u", "s", "e">>
DaftPunk == <<"D", "a", "f", "t", " ", "P", "u", "n", "k">>
NineInch == <<"N", "i", "n", "e", "\t", "I", "n", "c", "h">>
MUSE == <<"M", "U", "S", "E">>
MuseTopic == <<"M", "u", "s", "e", " ", "-", " ", "T", "o", "p", "i", "c">>
Punk == <<"P", "u", "n", "k">>

\* Display names a target list or config.artists may hold
Names == {Tool, tool, Muse}

\* The channels of the remote platform: searchChannels returns some of them,
\* getChannelDetail returns the row of a channel id
RemoteChannels ==
    { [channel_id |-> "UC_tool", title |-> Tool,
       description |-> Some("band"), subscriber_count |-> Some(1000)],
      [channel_id |-> "UC_muse", title |-> Muse,
       description |-> None, subscriber_count |-> None] }

ChannelIds == {ch.channel_id : ch \in RemoteChannels}

\* The substrings subscribe_to_channel_with_retry looks for in an error message
Markers ==
    {"quotaExceeded", "rateLimitExceeded", "forbidden", "403",
     "channelNotFound", "404", "subscriptionDuplicate", "already subscribed",
     "backend", "internal"}

\* Error messages (as marker sets) carrying at most n markers
ErrorMsgs(n) == {m \in SUBSET Markers : Cardinality(m) <= n}

VARIABLES
    pc,                    \* position of the running command
    config_artists,        \* config.artists
    max_retries,           \* config.settings.max_subscription_retries
    artists_file,          \* the --artists-file argument and what reading it gives
    dry_run,               \* cmd_sync's dry_run
    remoteSubs,            \* channel ids the user is subscribed to on the platform
    cache,                 \* artist_cache table: its rows
    now,                   \* the clock the cache reads, in days
    target_artists,        \* cmd_sync: target_artists
    current_subscriptions, \* cmd_sync: current_subscriptions
    current_names,         \* cmd_sync: current_names
    to_subscribe,          \* cmd_sync: to_subscribe
    already_subscribed,    \* cmd_sync: already_subscribed
    idx,                   \* cmd_sync: loop index i of the apply loop
    events,                \* calls cmd_sync made to the resolver and the executor
    fetch,                 \* get_subscriptions_with_pagination: its locals
    sub_pc,                \* subscribe_to_channel_with_retry: idle / loop / done
    sub_channel,           \* its channel_id
    attempt,               \* its loop variable
    error_msg,             \* the error of the latest insertSubscription, if any
    sub_classes,           \* outcome class of every insertSubscription request made
    sub_delays,            \* every backoff sleep made, in ms
    sub_result,            \* what the call returned
    cache_calls,           \* calls made to the cache on its own, with their answers
    resolve,               \* search_artist_with_verbose: its locals
    parse,                 \* parse_artists_file: its argument and what it returned
    list                   \* cmd_list: its locals and the pages it asked for

syncVars ==
    <<target_artists, current_subscriptions, current_names, to_subscribe,
      already_subscribed, idx, events>>
inputVars == <<config_artists, max_retries, artists_file, dry_run>>
subVars == <<sub_pc, sub_channel, attempt, error_msg, sub_classes, sub_delays, sub_result>>
storeVars == <<cache, now>>
unitVars == <<cache_calls, resolve, parse, list>>
vars == <<pc, inputVars, remoteSubs, storeVars, syncVars, fetch, subVars, unitVars>>

(***************************************************************************)
(* Subscription Executor: subscribe_to_channel_with_retry                  *)
(***************************************************************************)
\* Variant: the duplicate markers are looked for before "forbidden" and "403"
Classify_DuplicateFirst(msg) ==
    IF "quotaExceeded" \in msg \/ "rateLimitExceeded" \in msg THEN "quota"
    ELSE IF "subscriptionDuplicate" \in msg \/ "already subscribed" \in msg
         THEN "duplicate"
    ELSE IF "forbidden" \in msg \/ "403" \in msg THEN "permission"
    ELSE IF "channelNotFound" \in msg \/ "404" \in msg THEN "not_found"
    ELSE IF "backend" \in msg \/ "internal" \in msg THEN "server"
    ELSE "other"

\* The if / else-if chain over error_msg.contains(..)
Classify(msg) ==
    IF "quotaExceeded" \in msg \/ "rateLimitExceeded" \in msg THEN "quota"
    ELSE IF "forbidden" \in msg \/ "403" \in msg THEN "permission"
    ELSE IF "channelNotFound" \in msg \/ "404" \in msg THEN "not_found"
    ELSE IF "subscriptionDuplicate" \in msg \/ "already subscribed" \in msg
         THEN "duplicate"
    ELSE IF "backend" \in msg \/ "internal" \in msg THEN "server"
    ELSE "other"

\* Variant: a retryable failure of the last attempt sleeps too
ShouldRetry_AlsoLast(a, max) == a < max

\* `attempt < max_retries - 1`, the guard of both retry branches
ShouldRetry(a, max) == a < max - 1

\* Variant: the quota backoff grows by 1000 ms per attempt
QuotaDelay_Linear(a) == (a + 1) * 1000

\* `2_u64.pow(attempt) * 1000`
QuotaDelay(a) == (2 ^ a) * 1000

\* Variant: the server backoff grows by 1000 ms per attempt
ServerDelay_Steep(a) == 1000 + a * 1000

\* `1000 + (attempt as u64 * 500)`
ServerDelay(a) == 1000 + a * 500

\* Variant: an unrecognised failure is retried like a server failure
IsRetryClass_Other(class) == class \in {"quota", "server", "other"}

\* The branches that sleep and `continue`
IsRetryClass(class) == class \in {"quota", "server"}

BackoffDelay(class, a) == IF class = "quota" THEN QuotaDelay(a) ELSE ServerDelay(a)

\* Variant: a duplicate subscription is reported as a failure
FinalResult_DuplicateFails(class) ==
    CASE class = "quota" -> "QuotaExceeded"
      [] class = "permission" -> "PermissionDenied"
      [] class = "not_found" -> "ChannelNotFound"
      [] class = "server" -> "ServerError"
      [] OTHER -> "SubscriptionFailed"

\* What the call returns when a failed attempt is not retried
FinalResult(class) ==
    CASE class = "quota" -> "QuotaExceeded"
      [] class = "permission" -> "PermissionDenied"
      [] class = "not_found" -> "ChannelNotFound"
      [] class = "duplicate" -> "Ok"
      [] class = "server" -> "ServerError"
      [] OTHER -> "SubscriptionFailed"

SubIdle ==
    /\ sub_pc = "idle"
    /\ sub_channel = ""
    /\ attempt = 0
    /\ error_msg = None
    /\ sub_classes = <<>>
    /\ sub_delays = <<>>
    /\ sub_result = "none"

\* Entry of subscribe_to_channel: builds the request and enters the loop
SubscribeBegin(channel_id) ==
    /\ sub_pc' = "loop"
    /\ sub_channel' = channel_id
    /\ attempt' = 0
    /\ error_msg' = None
    /\ sub_classes' = <<>>
    /\ sub_delays' = <<>>
    /\ sub_result' = "none"

\* One iteration of `for attempt in 0..max_retries`: one insertSubscription
\* request, answered with success or with an error message of msgs
SubscribeAttempt(msgs) ==
    /\ sub_pc = "loop"
    /\ attempt < max_retries
    /\ \/ /\ error_msg' = None
          /\ sub_classes' = Append(sub_classes, "ok")
          /\ remoteSubs' = remoteSubs \cup {sub_channel}
          /\ sub_result' = "Ok"
          /\ sub_pc' = "done"
          /\ UNCHANGED <<attempt, sub_delays>>
       \/ \E msg \in msgs :
            LET class == Classify(msg) IN
            /\ error_msg' = Some(msg)
            /\ sub_classes' = Append(sub_classes, class)
            /\ UNCHANGED remoteSubs
            /\ IF IsRetryClass(class) /\ ShouldRetry(attempt, max_retries)
               THEN /\ sub_delays' = Append(sub_delays, BackoffDelay(class, attempt))
                    /\ attempt' = attempt + 1
                    /\ UNCHANGED <<sub_pc, sub_result>>
               ELSE /\ sub_result' = FinalResult(class)
                    /\ sub_pc' = "done"
                    /\ UNCHANGED <<attempt, sub_delays>>
    /\ UNCHANGED <<pc, inputVars, unitVars, storeVars, syncVars, fetch, sub_channel>>

\* The loop ends without a request having been answered (max_retries = 0):
\* `bail!("Failed to subscribe after {} attempts")`
SubscribeExhausted ==
    /\ sub_pc = "loop"
    /\ attempt >= max_retries
    /\ sub_result' = "FailedAfterAttempts"
    /\ sub_pc' = "done"
    /\ UNCHANGED <<pc, inputVars, unitVars, remoteSubs, storeVars, syncVars, fetch,
                   sub_channel, attempt, error_msg, sub_classes, sub_delays>>


(***************************************************************************)
(* Values of the command and fetch state while neither runs                *)
(***************************************************************************)
NoFile == [kind |-> "none", names |-> <<>>]

FetchIdle ==
    [active |-> FALSE, offset |-> 0, limit |-> 0, force_update |-> FALSE,
     page_channels |-> <<>>, total_channels |-> 0, has_more |-> FALSE,
     i |-> 0, artists |-> <<>>, log |-> <<>>, result |-> None]

\* search_artist_with_verbose before it is called
ResolveIdle ==
    [pc |-> "idle", name |-> <<>>, variations |-> <<>>, attempt |-> 0,
     queries |-> <<>>, response |-> None, result |-> None, sleeps |-> <<>>]

\* parse_artists_file before it is called
ParseIdle == [content |-> <<>>, result |-> None]

\* cmd_list before it is called
ListIdle ==
    [pc |-> "idle", offset |-> 0, limit |-> 0, update_artist_info |-> FALSE,
     all_subscriptions |-> <<>>, total_channels |-> 0,
     offsets |-> <<>>, processed |-> <<>>, declined |-> FALSE]

UnitIdle ==
    /\ cache_calls = <<>>
    /\ resolve = ResolveIdle
    /\ parse = ParseIdle
    /\ list = ListIdle

SyncIdle ==
    /\ target_artists = <<>>
    /\ current_subscriptions = <<>>
    /\ current_names = {}
    /\ to_subscribe = <<>>
    /\ already_subscribed = <<>>
    /\ idx = 0
    /\ events = <<>>

(***************************************************************************)
(* The Subscription Executor on its own: any channel id, any               *)
(* max_subscription_retries up to MaxRetries, any answers of the platform  *)
(***************************************************************************)
SubInit ==
    /\ pc = "executor"
    /\ config_artists = <<>>
    /\ max_retries \in 0..MaxRetries
    /\ artists_file = NoFile
    /\ dry_run = FALSE
    /\ remoteSubs \in SUBSET ChannelIds
    /\ cache = {}
    /\ now = 0
    /\ SyncIdle
    /\ fetch = FetchIdle
    /\ SubIdle
    /\ UnitIdle

\* subscribe_to_channel(channel_id)
CallSubscribe ==
    /\ pc = "executor"
    /\ sub_pc = "idle"
    /\ \E c \in ChannelIds : SubscribeBegin(c)
    /\ UNCHANGED <<pc, inputVars, unitVars, remoteSubs, storeVars, syncVars, fetch>>

SubNext ==
    \/ CallSubscribe
    \/ SubscribeAttempt(ErrorMsgs(MaxMarkers))
    \/ SubscribeExhausted

SpecSub == SubInit /\ [][SubNext]_vars

\* The call runs to its end: every insertSubscription request is answered
\* and every backoff sleep is finite
SpecSubLive ==
    /\ SpecSub
    /\ WF_vars(SubscribeAttempt(ErrorMsgs(MaxMarkers)))
    /\ WF_vars(SubscribeExhausted)


(***************************************************************************)
(* Name Resolver, as its callers see it                                    *)
(***************************************************************************)
\* The match policy of parse_api_search_results / parse_search_results
Matches(title, artist_name) ==
    LET title_lower == ToLowercase(title)
        artist_lower == ToLowercase(artist_name)
    IN  \/ title_lower = artist_lower
        \/ StrContains(title_lower, artist_lower)
        \/ StrContains(artist_lower, title_lower)

\* The Artist a search match yields: no subscriber count
BasicArtist(ch) ==
    [name |-> ch.title, channel_id |-> ch.channel_id,
     subscriber_count |-> None, description |-> ch.description]

\* The Artist get_channel_details yields for a channel
DetailedArtist(ch) ==
    [name |-> ch.title, channel_id |-> ch.channel_id,
     subscriber_count |-> ch.subscriber_count, description |-> ch.description]

ChannelOf(id) == CHOOSE ch \in RemoteChannels : ch.channel_id = id

\* What search_artist can return for a name: a channel whose title matches
\* it, no match, or an error of the search request
SearchResults(artist_name) ==
    {[kind |-> "found", artist |-> Some(BasicArtist(ch))] :
        ch \in {c \in RemoteChannels : Matches(c.title, artist_name)}}
    \cup {[kind |-> "not_found", artist |-> None],
          [kind |-> "error", artist |-> None]}

\* tokio::time::timeout around the search: the search's result, or expiry
TimedSearchResults(artist_name) ==
    SearchResults(artist_name) \cup {[kind |-> "timeout", artist |-> None]}

(***************************************************************************)
(* Cache Store                                                             *)
(***************************************************************************)
\* Variant: a row exactly cache_expiry_days old is still returned
IsFresh_Inclusive(row, t) == row.cached_at >= t - CacheExpiryDays

\* `cached_at > datetime('now', '-N days')`
IsFresh(row, t) == row.cached_at > t - CacheExpiryDays

\* The rows `WHERE search_name = ? AND cached_at > datetime('now', ?)` selects
FreshRows(c, t, search_name) ==
    {row \in c : row.search_name = search_name /\ IsFresh(row, t)}

\* get_cached_artist when the query succeeds: the first selected row, if any
GetCachedArtist(c, t, search_name) ==
    IF FreshRows(c, t, search_name) # {}
    THEN Some((CHOOSE row \in FreshRows(c, t, search_name) : TRUE).artist)
    ELSE None

\* Variant: a plain INSERT into a table without a key
CacheArtist_NoReplace(c, t, search_name, artist) ==
    c \cup {[search_name |-> search_name, artist |-> artist, cached_at |-> t]}

\* cache_artist when the statement succeeds: INSERT OR REPLACE on the
\* PRIMARY KEY search_name, with cached_at = datetime('now')
CacheArtist(c, t, search_name, artist) ==
    {row \in c : row.search_name # search_name}
    \cup {[search_name |-> search_name, artist |-> artist, cached_at |-> t]}

(***************************************************************************)
(* Batch Fetch Orchestrator: get_subscriptions_with_pagination             *)
(***************************************************************************)
LetsGetRusty ==
    <<"L", "e", "t", "'", "s", " ", "G", "e", "t", " ", "R", "u", "s", "t", "y">>
MarquesBrownlee ==
    <<"M", "a", "r", "q", "u", "e", "s", " ",
      "B", "r", "o", "w", "n", "l", "e", "e">>

\* get_mock_subscriptions
MockSubscriptions ==
    << [name |-> LetsGetRusty, channel_id |-> "mock_id_1",
        subscriber_count |-> None,
        description |-> Some("Rust programming tutorials (mock data)")],
       [name |-> MarquesBrownlee, channel_id |-> "mock_id_2",
        subscriber_count |-> None,
        description |-> Some("Technology reviews (mock data)")] >>

\* The (artists, has_more, total) tuple the function returns
FetchResult(artists, has_more, total) ==
    [artists |-> artists, has_more |-> has_more, total |-> total]

\* Variant: the placeholder set is empty
MockResult_Empty == FetchResult(<<>>, FALSE, 0)

MockResult == FetchResult(MockSubscriptions, FALSE, Len(MockSubscriptions))

\* `.skip(offset).take(limit)`
SkipTake(s, offset, limit) ==
    IF offset >= Len(s) THEN <<>>
    ELSE SubSeq(s, offset + 1,
                IF offset + limit < Len(s) THEN offset + limit ELSE Len(s))

\* Variant: the page that ends at the last name still reports more
HasMore_Inclusive(offset, page_len, total_channels) == offset + page_len <= total_channels

\* `let has_more = offset + page_channels.len() < total_channels`
HasMore(offset, page_len, total_channels) == offset + page_len < total_channels

\* Entry of the function up to the loop: the value of `fetch` after it
FetchBegin(offset, limit, file, force_update) ==
    IF file.kind \in {"missing", "bad"}
    THEN [FetchIdle EXCEPT !.offset = offset, !.limit = limit,
                           !.force_update = force_update,
                           !.result = Some(MockResult)]
    ELSE
        LET all_channels == IF file.kind = "ok" THEN file.names ELSE config_artists
            total_channels == Len(all_channels)
            page_channels == SkipTake(all_channels, offset, limit)
        IN  IF page_channels = <<>>
            THEN [FetchIdle EXCEPT !.offset = offset, !.limit = limit,
                                   !.force_update = force_update,
                                   !.total_channels = total_channels,
                                   !.result = Some(FetchResult(<<>>, FALSE, total_channels))]
            ELSE [active |-> TRUE, offset |-> offset, limit |-> limit,
                  force_update |-> force_update,
                  page_channels |-> page_channels,
                  total_channels |-> total_channels,
                  has_more |-> HasMore(offset, Len(page_channels), total_channels),
                  i |-> 0, artists |-> <<>>, log |-> <<>>, result |-> None]

\* What one iteration of the loop did for its name
\* Variant: the Artist is appended before the cache is written
IterationCalls_PushFirst(lookup, search, details, cache_write, pushed, slept) ==
    (IF lookup # "skipped" THEN <<"get_cached_artist">> ELSE <<>>)
    \o (IF search # "none" THEN <<"search_artist_with_verbose">> ELSE <<>>)
    \o (IF details # "none" THEN <<"get_channel_details">> ELSE <<>>)
    \o (IF IsSome(pushed) THEN <<"push">> ELSE <<>>)
    \o (IF cache_write # "none" THEN <<"cache_artist">> ELSE <<>>)
    \o (IF slept THEN <<"sleep">> ELSE <<>>)

\* The calls of one iteration, in the order of the statements of the loop body
IterationCalls(lookup, search, details, cache_write, pushed, slept) ==
    (IF lookup # "skipped" THEN <<"get_cached_artist">> ELSE <<>>)
    \o (IF search # "none" THEN <<"search_artist_with_verbose">> ELSE <<>>)
    \o (IF details # "none" THEN <<"get_channel_details">> ELSE <<>>)
    \o (IF cache_write # "none" THEN <<"cache_artist">> ELSE <<>>)
    \o (IF IsSome(pushed) THEN <<"push">> ELSE <<>>)
    \o (IF slept THEN <<"sleep">> ELSE <<>>)

ItemLog(name, lookup, search, details, cache_write, pushed, slept) ==
    [name |-> name, lookup |-> lookup, search |-> search, details |-> details,
     cache_write |-> cache_write, pushed |-> pushed, slept |-> slept,
     calls |-> IterationCalls(lookup, search, details, cache_write, pushed, slept)]

\* Variant: a cached name is looked up and then searched all the same
CacheLookup_HitSearches(force_update, lookup_ok, c, t, channel_name) ==
    IF force_update
    THEN [lookup |-> "skipped", cached |-> None, search |-> TRUE]
    ELSE IF ~lookup_ok
    THEN [lookup |-> "error", cached |-> None, search |-> TRUE]
    ELSE IF IsSome(GetCachedArtist(c, t, channel_name))
    THEN [lookup |-> "hit", cached |-> GetCachedArtist(c, t, channel_name),
          search |-> TRUE]
    ELSE [lookup |-> "miss", cached |-> None, search |-> TRUE]

\* Variant: force_update is ignored
CacheLookup_ForceReads(force_update, lookup_ok, c, t, channel_name) ==
    IF ~lookup_ok
    THEN [lookup |-> "error", cached |-> None, search |-> TRUE]
    ELSE IF IsSome(GetCachedArtist(c, t, channel_name))
    THEN [lookup |-> "hit", cached |-> GetCachedArtist(c, t, channel_name),
          search |-> FALSE]
    ELSE [lookup |-> "miss", cached |-> None, search |-> TRUE]

\* Variant: an error of the cache lookup ends the iteration like a hit
CacheLookup_ErrorSkips(force_update, lookup_ok, c, t, channel_name) ==
    IF force_update
    THEN [lookup |-> "skipped", cached |-> None, search |-> TRUE]
    ELSE IF ~lookup_ok
    THEN [lookup |-> "error", cached |-> None, search |-> FALSE]
    ELSE IF IsSome(GetCachedArtist(c, t, channel_name))
    THEN [lookup |-> "hit", cached |-> GetCachedArtist(c, t, channel_name),
          search |-> FALSE]
    ELSE [lookup |-> "miss", cached |-> None, search |-> TRUE]

\* `if !force_update { match self.get_cached_artist(channel_name) {..} }`:
\* which arm was taken, the cached Artist of the Ok(Some(..)) arm, and
\* whether control reaches the search (every arm but the one that `continue`s)
CacheLookup(force_update, lookup_ok, c, t, channel_name) ==
    IF force_update
    THEN [lookup |-> "skipped", cached |-> None, search |-> TRUE]
    ELSE IF ~lookup_ok
    THEN [lookup |-> "error", cached |-> None, search |-> TRUE]
    ELSE IF IsSome(GetCachedArtist(c, t, channel_name))
    THEN [lookup |-> "hit", cached |-> GetCachedArtist(c, t, channel_name),
          search |-> FALSE]
    ELSE [lookup |-> "miss", cached |-> None, search |-> TRUE]

\* Variant: a search that timed out falls back to a known channel
Resolved_TimeoutFallback(r) ==
    IF r.kind = "found" THEN r.artist
    ELSE IF r.kind = "timeout"
    THEN Some(BasicArtist(CHOOSE ch \in RemoteChannels : ch.channel_id = "UC_tool"))
    ELSE None

\* `match search_timeout { Ok(Ok(Some(artist))) => .., Ok(Ok(None)) => ..,
\* Ok(Err(e)) => .., Err(_) => .. }`: the Artist of the only arm that has one
Resolved(r) == IF r.kind = "found" THEN r.artist ELSE None

\* Variant: the basic match is replaced by the channel's details at any rate
StoredArtist_AlwaysDetailed(artist, details_ok) ==
    DetailedArtist(ChannelOf(artist.channel_id))

\* `match self.get_channel_details(&artist.channel_id).await`: the detailed
\* Artist of the Ok arm, the match itself ("Use basic info") of the Err arm
StoredArtist(artist, details_ok) ==
    IF details_ok THEN DetailedArtist(ChannelOf(artist.channel_id)) ELSE artist

\* Variant: the Artist is pushed only when it could be cached
PushedAfterCache_DropOnError(stored, cache_ok) ==
    IF cache_ok THEN Some(stored) ELSE None

\* `if let Err(e) = self.cache_artist(..) { warn!(..) }  artists.push(..)`
PushedAfterCache(stored, cache_ok) == Some(stored)

\* Variant: the cache is keyed by the title of the resolved channel
CacheKey_ResolvedName(channel_name, stored) == stored.name

\* The search_name of `self.cache_artist(channel_name, &detailed_artist)` and
\* of `self.cache_artist(channel_name, &artist)`
CacheKey(channel_name, stored) == channel_name

\* Vec::push of an Option's content, if any
PushOption(artists, o) == IF IsSome(o) THEN Append(artists, Unwrap(o)) ELSE artists

\* One iteration of `for (i, channel_name) in page_channels`: the cache
\* lookup (which may fail), the timed search, the detail lookup, the cache
\* write (which may fail), the push and the inter-request sleep
FetchItem ==
    /\ fetch.active
    /\ fetch.i < Len(fetch.page_channels)
    /\ \E lookup_ok \in BOOLEAN :
         LET channel_name == fetch.page_channels[fetch.i + 1]
             look == CacheLookup(fetch.force_update, lookup_ok, cache, now, channel_name)
         IN  IF ~look.search
             THEN /\ fetch' = [fetch EXCEPT
                                 !.artists = PushOption(@, look.cached),
                                 !.log = Append(@, ItemLog(channel_name, look.lookup, "none",
                                                           "none", "none", look.cached, FALSE)),
                                 !.i = @ + 1]
                  /\ UNCHANGED cache
             ELSE \E r \in TimedSearchResults(channel_name) :
                    IF IsSome(Resolved(r))
                    THEN \E details_ok \in BOOLEAN, cache_ok \in BOOLEAN :
                           LET artist == Unwrap(Resolved(r))
                               stored == StoredArtist(artist, details_ok)
                               pushed == PushedAfterCache(stored, cache_ok)
                           IN  /\ cache' = IF cache_ok
                                           THEN CacheArtist(cache, now,
                                                            CacheKey(channel_name, stored), stored)
                                           ELSE cache
                               /\ fetch' = [fetch EXCEPT
                                   !.artists = PushOption(@, pushed),
                                   !.log = Append(@, ItemLog(channel_name, look.lookup, r.kind,
                                                 IF details_ok THEN "ok" ELSE "error",
                                                 IF cache_ok THEN "ok" ELSE "error",
                                                 pushed, TRUE)),
                                   !.i = @ + 1]
                    ELSE /\ fetch' = [fetch EXCEPT
                                   !.log = Append(@, ItemLog(channel_name, look.lookup, r.kind,
                                                             "none", "none", None, TRUE)),
                                   !.i = @ + 1]
                         /\ UNCHANGED cache
    /\ UNCHANGED <<pc, inputVars, unitVars, remoteSubs, now, syncVars, subVars>>

\* After the loop: the placeholder set if nothing was resolved
FetchFinish ==
    /\ fetch.active
    /\ fetch.i = Len(fetch.page_channels)
    /\ fetch' = [fetch EXCEPT
                   !.active = FALSE,
                   !.result = IF fetch.artists = <<>>
                              THEN Some(MockResult)
                              ELSE Some(FetchResult(fetch.artists, fetch.has_more,
                                                    fetch.total_channels))]
    /\ UNCHANGED <<pc, inputVars, unitVars, remoteSubs, storeVars, syncVars, subVars>>


(***************************************************************************)
(* Sync flow: cmd_sync                                                     *)
(***************************************************************************)
\* The limit get_my_subscriptions passes to get_subscriptions_with_pagination
GetMySubscriptionsLimit == 1000

\* `current_subscriptions.iter().map(|a| a.name.to_lowercase()).collect()`
CurrentNames(subscriptions) ==
    {ToLowercase(subscriptions[k].name) : k \in 1..Len(subscriptions)}

\* Variant: the target is compared without case folding
IsCurrent_CaseSensitive(names, target) == target \in names

\* The test of the planning loop: `current_names.contains(&target.to_lowercase())`
IsCurrent(names, target) == ToLowercase(target) \in names

\* The targets the planning loop pushes to already_subscribed
PlanAlready(names, targets) ==
    LET Test(t) == IsCurrent(names, t) IN SelectSeq(targets, Test)

\* Variant: to_subscribe is built back to front
PlanToSubscribe_Reversed(names, targets) ==
    LET Test(t) == ~IsCurrent(names, t)
        kept == SelectSeq(targets, Test)
    IN  [k \in 1..Len(kept) |-> kept[Len(kept) + 1 - k]]

\* The targets the planning loop pushes to to_subscribe
PlanToSubscribe(names, targets) ==
    LET Test(t) == ~IsCurrent(names, t) IN SelectSeq(targets, Test)

Event(kind, target, artist, channel_id, result) ==
    [kind |-> kind, target |-> target, artist |-> artist,
     channel_id |-> channel_id, result |-> result]

\* From the start of cmd_sync to the call of get_my_subscriptions: reads the
\* target list, fails on a missing or malformed file
SyncStart ==
    /\ pc = "start"
    /\ IF artists_file.kind \in {"missing", "bad"}
       THEN /\ pc' = "failed"
            /\ UNCHANGED <<target_artists, fetch>>
       ELSE /\ target_artists' = IF artists_file.kind = "ok"
                                 THEN artists_file.names
                                 ELSE config_artists
            /\ fetch' = FetchBegin(0, GetMySubscriptionsLimit, NoFile, FALSE)
            /\ pc' = "fetching"
    /\ UNCHANGED <<inputVars, unitVars, remoteSubs, storeVars, current_subscriptions,
                   current_names, to_subscribe, already_subscribed, idx, events,
                   subVars>>

\* Variant: the apply loop is entered in dry-run mode too
AfterPlan_IgnoresDryRun(todo, dry) == IF todo # <<>> THEN "apply" ELSE "done"

\* `if !to_subscribe.is_empty() { if dry_run { .. } else { for .. } }`: the
\* apply loop is entered only outside dry-run with work to do
AfterPlan(todo, dry) == IF todo # <<>> /\ ~dry THEN "apply" ELSE "done"

\* get_my_subscriptions has returned: the planning loop and the display of
\* the plan; the apply loop is entered only outside dry-run with work to do
SyncPlan ==
    /\ pc = "fetching"
    /\ IsSome(fetch.result)
    /\ LET subs == Unwrap(fetch.result).artists
           names == CurrentNames(subs)
           todo == PlanToSubscribe(names, target_artists)
       IN  /\ current_subscriptions' = subs
           /\ current_names' = names
           /\ already_subscribed' = PlanAlready(names, target_artists)
           /\ to_subscribe' = todo
           /\ pc' = AfterPlan(todo, dry_run)
    /\ fetch' = FetchIdle
    /\ idx' = 0
    /\ UNCHANGED <<inputVars, unitVars, remoteSubs, storeVars, target_artists, events, subVars>>

\* Variant: the executor is called with the id of a fixed channel
SubscribedChannel_Fixed(artist) == "UC_muse"

\* The id handed to subscribe_to_channel: `&artist.channel_id`
SubscribedChannel(artist) == artist.channel_id

\* Variant: the apply loop ends after its first item
AfterItem_StopAfterFirst(i) == "done"

\* `if i < to_subscribe.len() - 1 { sleep }` and the next iteration
AfterItem(i) == IF i + 1 < Len(to_subscribe) THEN "apply" ELSE "done"

\* One iteration of the apply loop up to the executor's call: search_artist,
\* then subscribe_to_channel with the id of the match
ApplySearch ==
    /\ pc = "apply"
    /\ idx < Len(to_subscribe)
    /\ LET artist_name == to_subscribe[idx + 1] IN
       \E r \in SearchResults(artist_name) :
         LET searched == Event("search", artist_name, r.artist, "", r.kind) IN
         IF r.kind = "found"
         THEN LET channel_id == SubscribedChannel(Unwrap(r.artist)) IN
              /\ events' = events \o
                     <<searched, Event("subscribe", artist_name, r.artist, channel_id, "")>>
              /\ SubscribeBegin(channel_id)
              /\ pc' = "subscribing"
              /\ UNCHANGED idx
         ELSE /\ events' = Append(events, searched)
              /\ pc' = AfterItem(idx)
              /\ idx' = idx + 1
              /\ UNCHANGED subVars
    /\ UNCHANGED <<inputVars, unitVars, remoteSubs, storeVars, target_artists,
                   current_subscriptions, current_names, to_subscribe,
                   already_subscribed, fetch>>

\* subscribe_to_channel has returned: its result is reported and the loop
\* goes on with the next name
ApplySubscribed ==
    /\ pc = "subscribing"
    /\ sub_pc = "done"
    /\ events' = Append(events,
                        Event("subscribed", to_subscribe[idx + 1], None,
                              sub_channel, sub_result))
    /\ pc' = AfterItem(idx)
    /\ idx' = idx + 1
    /\ sub_pc' = "idle"
    /\ sub_channel' = ""
    /\ attempt' = 0
    /\ error_msg' = None
    /\ sub_classes' = <<>>
    /\ sub_delays' = <<>>
    /\ sub_result' = "none"
    /\ UNCHANGED <<inputVars, unitVars, remoteSubs, storeVars, target_artists,
                   current_subscriptions, current_names, to_subscribe,
                   already_subscribed, fetch>>

\* A cache row a former run can have left for a name
CacheRows(search_name) ==
    {[search_name |-> search_name, artist |-> DetailedArtist(ch), cached_at |-> t] :
        ch \in {c \in RemoteChannels : Matches(c.title, search_name)},
        t \in {0, CacheExpiryDays}}

\* The caches a command can start with, for the names it will look up
InitCaches(names) ==
    {c \in SUBSET (UNION {CacheRows(k) : k \in names}) :
        /\ Cardinality(c) <= MaxCacheRows
        /\ \A r1, r2 \in c : r1.search_name = r2.search_name => r1 = r2}

\* One error message of every class the executor tells apart
ClassMsgs ==
    {{"quotaExceeded"}, {"forbidden"}, {"channelNotFound"},
     {"subscriptionDuplicate"}, {"backend"}, {}}

\* What reading --artists-file can give
FileInputs ==
    {NoFile, [kind |-> "missing", names |-> <<>>], [kind |-> "bad", names |-> <<>>]}
    \cup {[kind |-> "ok", names |-> ns] : ns \in SeqsUpTo(Names, MaxTargets)}

SyncInit ==
    /\ pc = "start"
    /\ config_artists \in SeqsUpTo(Names, MaxConfig)
    /\ max_retries \in 0..MaxSyncRetries
    /\ artists_file \in FileInputs
    /\ dry_run \in BOOLEAN
    /\ remoteSubs \in {{}, {"UC_tool"}}
    /\ cache \in InitCaches({config_artists[k] : k \in 1..Len(config_artists)})
    /\ now = CacheExpiryDays
    /\ SyncIdle
    /\ fetch = FetchIdle
    /\ SubIdle
    /\ UnitIdle

Next ==
    \/ SyncStart
    \/ FetchItem
    \/ FetchFinish
    \/ SyncPlan
    \/ ApplySearch
    \/ SubscribeAttempt(ClassMsgs)
    \/ SubscribeExhausted
    \/ ApplySubscribed

Spec == SyncInit /\ [][Next]_vars

(***************************************************************************)
(* The Batch Fetch Orchestrator on its own: one call of                    *)
(* get_subscriptions_with_pagination with any offset, limit, name source   *)
(* and force_update                                                        *)
(***************************************************************************)
\* The name sources of a call: config.artists, or what reading the file gives
FetchSources ==
    {[config |-> names, file |-> NoFile] : names \in SeqsUpTo(Names, MaxConfig)}
    \cup {[config |-> <<>>, file |-> f] : f \in FileInputs \ {NoFile}}

FetchInit ==
    /\ pc = "fetch"
    /\ \E src \in FetchSources :
         /\ config_artists = src.config
         /\ artists_file = src.file
         /\ cache \in InitCaches({src.config[k] : k \in 1..Len(src.config)}
                                 \cup {src.file.names[k] : k \in 1..Len(src.file.names)})
    /\ max_retries = 0
    /\ dry_run = FALSE
    /\ remoteSubs = {}
    /\ now = CacheExpiryDays
    /\ SyncIdle
    /\ fetch = FetchIdle
    /\ SubIdle
    /\ UnitIdle

\* get_subscriptions_with_pagination(offset, limit, artists_file, force_update, _)
CallFetch ==
    /\ pc = "fetch"
    /\ fetch = FetchIdle
    /\ \E offset \in 0..MaxOffset, limit \in 0..MaxLimit, force_update \in BOOLEAN :
         fetch' = FetchBegin(offset, limit, artists_file, force_update)
    /\ UNCHANGED <<pc, inputVars, unitVars, remoteSubs, storeVars, syncVars, subVars>>

FetchNext ==
    \/ CallFetch
    \/ FetchItem
    \/ FetchFinish

SpecFetch == FetchInit /\ [][FetchNext]_vars

\* The call runs to its end: every await of an iteration returns (the search
\* within search_timeout_seconds at the latest), and the loop is finite
SpecFetchLive == SpecFetch /\ WF_vars(FetchNext)

(***************************************************************************)
(* List flow: cmd_list, for any name source, any page size from 1 to       *)
(* MaxLimit (the code's `let limit = 50`, scaled to the lists explored)    *)
(* and any answers to the "Show next" prompt                               *)
(***************************************************************************)
ListInit ==
    /\ pc = "list"
    /\ \E src \in FetchSources :
         /\ config_artists = src.config
         /\ artists_file = src.file
         /\ cache \in InitCaches({src.config[k] : k \in 1..Len(src.config)}
                                 \cup {src.file.names[k] : k \in 1..Len(src.file.names)})
    /\ max_retries = 0
    /\ dry_run = FALSE
    /\ remoteSubs = {}
    /\ now = CacheExpiryDays
    /\ SyncIdle
    /\ fetch = FetchIdle
    /\ SubIdle
    /\ cache_calls = <<>>
    /\ resolve = ResolveIdle
    /\ parse = ParseIdle
    /\ \E limit \in 1..MaxLimit, update_artist_info \in BOOLEAN :
         list = [ListIdle EXCEPT !.pc = "call", !.limit = limit,
                                 !.update_artist_info = update_artist_info]

\* The names of the entries of a page's log
LogNames(log) == [k \in 1..Len(log) |-> log[k].name]

\* Top of `loop`: get_subscriptions_with_pagination(offset, limit, ..)
ListFetch ==
    /\ pc = "list"
    /\ list.pc = "call"
    /\ fetch' = FetchBegin(list.offset, list.limit, artists_file, list.update_artist_info)
    /\ list' = [list EXCEPT !.pc = "fetching", !.offsets = Append(@, list.offset)]
    /\ UNCHANGED <<pc, inputVars, remoteSubs, storeVars, syncVars, subVars,
                   cache_calls, resolve, parse>>

\* The page has come back: total on the first page, "No subscriptions found",
\* the display, `if !has_more { break }`, the prompt and `offset += limit`
ListPage ==
    /\ pc = "list"
    /\ list.pc = "fetching"
    /\ IsSome(fetch.result)
    /\ LET page == Unwrap(fetch.result)
           got == [list EXCEPT
                     !.total_channels = IF list.offset = 0 THEN page.total ELSE @,
                     !.processed = @ \o LogNames(fetch.log)]
           shown == [got EXCEPT !.all_subscriptions = @ \o page.artists]
       IN  IF page.artists = <<>> /\ list.offset = 0
           THEN list' = [got EXCEPT !.pc = "done"]
           ELSE IF ~page.has_more
           THEN list' = [shown EXCEPT !.pc = "done"]
           ELSE \E input \in {"", "n"} :
                  list' = IF input = "n"
                          THEN [shown EXCEPT !.pc = "done", !.declined = TRUE]
                          ELSE [shown EXCEPT !.pc = "call",
                                             !.offset = @ + list.limit]
    /\ fetch' = FetchIdle
    /\ UNCHANGED <<pc, inputVars, remoteSubs, storeVars, syncVars, subVars,
                   cache_calls, resolve, parse>>

ListNext ==
    \/ ListFetch
    \/ FetchItem
    \/ FetchFinish
    \/ ListPage

SpecList == ListInit /\ [][ListNext]_vars

(***************************************************************************)
(* The Cache Store on its own: any calls of cache_artist and               *)
(* get_cached_artist, either of which may fail, while the clock advances   *)
(***************************************************************************)
\* The Artist values get_subscriptions_with_pagination hands to cache_artist
CacheArtists ==
    {BasicArtist(ch) : ch \in RemoteChannels} \cup {DetailedArtist(ch) : ch \in RemoteChannels}

\* The search names the calls use; the key column compares them byte by byte
CacheKeys == {Tool, tool}

CacheCall(op, search_name, artist, ok) ==
    [op |-> op, search_name |-> search_name, artist |-> artist, ok |-> ok, at |-> now]

CacheInit ==
    /\ pc = "cache"
    /\ config_artists = <<>>
    /\ max_retries = 0
    /\ artists_file = NoFile
    /\ dry_run = FALSE
    /\ remoteSubs = {}
    /\ cache = {}
    /\ now = 0
    /\ SyncIdle
    /\ fetch = FetchIdle
    /\ SubIdle
    /\ UnitIdle

\* cache_artist(search_name, artist): Ok(()) after the statement ran, or Err
CallCacheArtist ==
    /\ pc = "cache"
    /\ Len(cache_calls) < MaxCacheCalls
    /\ \E search_name \in CacheKeys, artist \in CacheArtists, ok \in BOOLEAN :
         /\ cache' = IF ok THEN CacheArtist(cache, now, search_name, artist) ELSE cache
         /\ cache_calls' = Append(cache_calls,
                                  CacheCall("cache_artist", search_name, Some(artist), ok))
    /\ UNCHANGED <<pc, inputVars, remoteSubs, now, syncVars, fetch, subVars, resolve, parse, list>>

\* get_cached_artist(search_name): Ok(Some(artist)), Ok(None) or Err
CallGetCachedArtist ==
    /\ pc = "cache"
    /\ Len(cache_calls) < MaxCacheCalls
    /\ \E search_name \in CacheKeys, ok \in BOOLEAN :
         cache_calls' = Append(cache_calls,
             CacheCall("get_cached_artist", search_name,
                       IF ok THEN GetCachedArtist(cache, now, search_name) ELSE None, ok))
    /\ UNCHANGED <<pc, inputVars, remoteSubs, storeVars, syncVars, fetch, subVars, resolve, parse, list>>

\* A day passes between two calls: datetime('now') moves on
Tick ==
    /\ pc = "cache"
    /\ now < MaxNow
    /\ now' = now + 1
    /\ UNCHANGED <<pc, inputVars, remoteSubs, cache, syncVars, fetch, subVars, unitVars>>

CacheNext ==
    \/ CallCacheArtist
    \/ CallGetCachedArtist
    \/ Tick

SpecCache == CacheInit /\ [][CacheNext]_vars


(***************************************************************************)
(* The Name Resolver on its own: search_artist_with_verbose for any name,  *)
(* with any answer of the platform to every query                          *)
(***************************************************************************)
\* generate_search_variations
GenerateSearchVariations(artist_name) ==
    LET variations ==
            << artist_name,
               artist_name \o <<" ", "b", "a", "n", "d">>,
               artist_name \o <<" ", "m", "u", "s", "i", "c">>,
               artist_name \o <<" ", "o", "f", "f", "i", "c", "i", "a", "l">>,
               artist_name \o <<" ", "c", "h", "a", "n", "n", "e", "l">>,
               artist_name \o <<"V", "E", "V", "O">>,
               artist_name \o <<" ", "V", "E", "V", "O">>,
               artist_name \o <<" ", "-", " ", "T", "o", "p", "i", "c">>,
               artist_name \o <<"T", "o", "p", "i", "c">> >>
    IN  IF ~StrContains(artist_name, <<" ">>)
        THEN variations \o << artist_name \o <<"b", "a", "n", "d">>, <<"T", "h", "e", " ">> \o artist_name >>
        ELSE variations

\* The names search_artist is called with
ResolveNames == {Tool, Muse, DaftPunk, NineInch}

\* One item of a search response: its snippet.title, id.channelId,
\* snippet.channelId and snippet.description, each possibly absent
SearchItem(title, channel_id, snippet_channel_id, description) ==
    [title |-> title, channel_id |-> channel_id,
     snippet_channel_id |-> snippet_channel_id, description |-> description]

\* The items the platform may return
SearchItems ==
    { SearchItem(Some(Tool), Some("UC_tool"), Some("UC_tool"), Some("band")),
      SearchItem(Some(MuseTopic), Some("UC_muse_topic"), Some("UC_muse_topic"), None),
      SearchItem(Some(MUSE), Some("UC_MUSE"), Some("UC_MUSE"), Some("tribute")),
      SearchItem(Some(Punk), Some("UC_punk"), Some("UC_punk"), None),
      SearchItem(Some(Muse), None, Some("UC_muse"), None) }

\* What one query can come to: a failed request or response body ("error"),
\* a response of the API-key request ("api"), or a response of the OAuth
\* request made when there is no API key or its request was refused ("oauth")
SearchResponses ==
    {[kind |-> "error", items |-> <<>>]}
    \cup {[kind |-> k, items |-> items] :
            k \in {"api", "oauth"}, items \in SeqsUpTo(SearchItems, MaxItems)}

\* The items a parser looks at: parse_api_search_results needs title and
\* id.channelId, parse_search_results needs the title only
Usable(item, kind) ==
    IF kind = "api" THEN IsSome(item.title) /\ IsSome(item.channel_id)
    ELSE IsSome(item.title)

\* The Artist built from a matching item
ItemArtist(item, kind) ==
    [name |-> Unwrap(item.title),
     channel_id |-> IF IsSome(item.channel_id) THEN Unwrap(item.channel_id)
                    ELSE IF kind = "oauth" /\ IsSome(item.snippet_channel_id)
                    THEN Unwrap(item.snippet_channel_id)
                    ELSE "",
     subscriber_count |-> None,
     description |-> item.description]

\* Variant: the loop over the items keeps the last match
RECURSIVE ParseSearchItems_Last(_, _, _, _)
ParseSearchItems_Last(items, k, artist_name, kind) ==
    IF k > Len(items) THEN None
    ELSE LET later == ParseSearchItems_Last(items, k + 1, artist_name, kind) IN
         IF IsSome(later) THEN later
         ELSE IF Usable(items[k], kind) /\ Matches(Unwrap(items[k].title), artist_name)
         THEN Some(ItemArtist(items[k], kind))
         ELSE None

\* `for item in items { if <title matches> { return Ok(Some(artist)) } }
\* Ok(None)`, from item k on: the loop of both parsers
RECURSIVE ParseSearchItems(_, _, _, _)
ParseSearchItems(items, k, artist_name, kind) ==
    IF k > Len(items) THEN None
    ELSE IF Usable(items[k], kind) /\ Matches(Unwrap(items[k].title), artist_name)
    THEN Some(ItemArtist(items[k], kind))
    ELSE ParseSearchItems(items, k + 1, artist_name, kind)

\* parse_api_search_results
ParseApiSearchResults(items, artist_name) == ParseSearchItems(items, 1, artist_name, "api")

\* parse_search_results
ParseSearchResults(items, artist_name) == ParseSearchItems(items, 1, artist_name, "oauth")

\* Variant: the parsers are given the search term
MatchTarget_SearchTerm(search_term, original_name) == search_term

\* The name try_search_with_term hands to the parsers
MatchTarget(search_term, original_name) == original_name

\* try_search_with_term when the request succeeded
TrySearchWithTerm(response, search_term, original_name) ==
    IF response.kind = "api"
    THEN ParseApiSearchResults(response.items, MatchTarget(search_term, original_name))
    ELSE ParseSearchResults(response.items, MatchTarget(search_term, original_name))

ResolveResult(kind, artist) == [kind |-> kind, artist |-> artist]

\* Variant: running out of variations is an error
ExhaustedResult_Error == ResolveResult("error", None)

\* The `Ok(None)` after the loop
ExhaustedResult == ResolveResult("not_found", None)

\* Variant: every retry but none sleeps
SleepsAfter_Never(attempt_no, count) == FALSE

\* `if attempt > 0 && attempt < search_variations.len() - 1 { sleep(200 ms) }`
SleepsAfter(attempt_no, count) == attempt_no > 0 /\ attempt_no < count - 1

ResolveInit ==
    /\ pc = "resolve"
    /\ config_artists = <<>>
    /\ max_retries = 0
    /\ artists_file = NoFile
    /\ dry_run = FALSE
    /\ remoteSubs = {}
    /\ cache = {}
    /\ now = 0
    /\ SyncIdle
    /\ fetch = FetchIdle
    /\ SubIdle
    /\ UnitIdle

\* search_artist_with_verbose(artist_name, _) up to the loop
CallSearchArtist ==
    /\ pc = "resolve"
    /\ resolve.pc = "idle"
    /\ \E artist_name \in ResolveNames :
         resolve' = [ResolveIdle EXCEPT
                        !.pc = "loop",
                        !.name = artist_name,
                        !.variations = GenerateSearchVariations(artist_name)]
    /\ UNCHANGED <<pc, inputVars, remoteSubs, storeVars, syncVars, fetch, subVars,
                   cache_calls, parse, list>>

\* One iteration of the loop over the variations: the query, `?` on its
\* error, the return on a match, the sleep before the next variation
SearchAttempt ==
    /\ pc = "resolve"
    /\ resolve.pc = "loop"
    /\ resolve.attempt < Len(resolve.variations)
    /\ \E response \in SearchResponses :
         LET search_term == resolve.variations[resolve.attempt + 1]
             asked == [resolve EXCEPT !.queries = Append(@, search_term),
                                      !.response = Some(response)]
             found == TrySearchWithTerm(response, search_term, resolve.name)
         IN  resolve' =
                IF response.kind = "error"
                THEN [asked EXCEPT !.pc = "done",
                                   !.result = Some(ResolveResult("error", None))]
                ELSE IF IsSome(found)
                THEN [asked EXCEPT !.pc = "done",
                                   !.result = Some(ResolveResult("found", found))]
                ELSE [asked EXCEPT
                        !.attempt = @ + 1,
                        !.sleeps = IF SleepsAfter(resolve.attempt, Len(resolve.variations))
                                   THEN Append(@, 200) ELSE @]
    /\ UNCHANGED <<pc, inputVars, remoteSubs, storeVars, syncVars, fetch, subVars,
                   cache_calls, parse, list>>

\* The loop is over: no variation matched
SearchExhausted ==
    /\ pc = "resolve"
    /\ resolve.pc = "loop"
    /\ resolve.attempt = Len(resolve.variations)
    /\ resolve' = [resolve EXCEPT !.pc = "done", !.result = Some(ExhaustedResult)]
    /\ UNCHANGED <<pc, inputVars, remoteSubs, storeVars, syncVars, fetch, subVars,
                   cache_calls, parse, list>>

ResolveNext ==
    \/ CallSearchArtist
    \/ SearchAttempt
    \/ SearchExhausted

SpecResolve == ResolveInit /\ [][ResolveNext]_vars

\* tokio::time::timeout around search_artist_with_verbose, as
\* get_subscriptions_with_pagination calls it: on expiry the future of the
\* whole search is dropped, wherever its loop stands
SearchTimeout ==
    /\ pc = "resolve"
    /\ resolve.pc = "loop"
    /\ resolve' = [resolve EXCEPT !.pc = "done",
                                  !.result = Some(ResolveResult("timeout", None))]
    /\ UNCHANGED <<pc, inputVars, remoteSubs, storeVars, syncVars, fetch, subVars,
                   cache_calls, parse, list>>

TimedResolveNext ==
    \/ CallSearchArtist
    \/ SearchAttempt
    \/ SearchExhausted
    \/ SearchTimeout

\* The search as the fetch path runs it, under search_timeout_seconds
SpecResolveTimed == ResolveInit /\ [][TimedResolveNext]_vars

(***************************************************************************)
(* parse_artists_file on its own                                           *)
(***************************************************************************)
\* A character outside ASCII: one `char`, two bytes in the UTF-8 of a String
EAcute == "U+00E9"

\* The characters the contents are drawn from
ParseChars == {"a", " ", "|", "#", "\n"}

\* [c, c, ..., c] of n characters: "A".repeat(n) of the tests
Repeat(c, n) == [k \in 1..n |-> c]

\* Bytes one character takes in a String
Utf8Len(c) == IF c = EAcute THEN 2 ELSE 1

RECURSIVE ByteLen(_)
\* String::len(): the length in bytes
ByteLen(s) == IF s = <<>> THEN 0 ELSE Utf8Len(Head(s)) + ByteLen(Tail(s))

\* char::is_whitespace on the characters of the model
IsWhitespace(c) == c \in {" ", "\t"}

\* str::find(c): the position of the first c, 0 for None
Find(s, c) ==
    IF \E k \in 1..Len(s) : s[k] = c
    THEN CHOOSE k \in 1..Len(s) : s[k] = c /\ \A j \in 1..(k - 1) : s[j] # c
    ELSE 0

RECURSIVE Lines(_)
\* str::lines(): the text between line feeds; a final line feed ends the
\* last line and opens no new one
Lines(content) ==
    IF content = <<>> THEN <<>>
    ELSE LET k == Find(content, "\n") IN
         IF k = 0 THEN <<content>>
         ELSE <<SubSeq(content, 1, k - 1)>>
                  \o Lines(SubSeq(content, k + 1, Len(content)))

RECURSIVE TrimStart(_)
TrimStart(s) ==
    IF s # <<>> /\ IsWhitespace(Head(s)) THEN TrimStart(Tail(s)) ELSE s

RECURSIVE TrimEnd(_)
TrimEnd(s) ==
    IF s # <<>> /\ IsWhitespace(s[Len(s)])
    THEN TrimEnd(SubSeq(s, 1, Len(s) - 1))
    ELSE s

Trim_StartOnly(s) == TrimStart(s)

\* str::trim()
Trim(s) == TrimEnd(TrimStart(s))

\* The literal of the length test
MaxNameLen == 100

\* artist_name.len() > 100
TooLong(artist_name) == ByteLen(artist_name) > MaxNameLen

\* What parse_artists_file returns: Ok(artists) or the Err of bail!
ParseOk(artists) == [ok |-> TRUE, artists |-> artists]
ParseErr == [ok |-> FALSE, artists |-> <<>>]

\* let artist_name = if let Some(pipe_pos) = line.find('|') { ... } else { ... }
ArtistName(line) ==
    LET pipe_pos == Find(line, "|") IN
    IF pipe_pos > 0 THEN Trim(SubSeq(line, 1, pipe_pos - 1)) ELSE line

RECURSIVE ParseLines(_, _, _)
\* The loop over content.lines(), from line k on, with the artists so far
ParseLines(lines, k, artists) ==
    IF k > Len(lines) THEN ParseOk(artists)
    ELSE LET line == Trim(lines[k]) IN
         IF line = <<>> \/ Head(line) = "#" THEN ParseLines(lines, k + 1, artists)
         ELSE LET artist_name == ArtistName(line) IN
              IF artist_name = <<>> THEN ParseLines(lines, k + 1, artists)
              ELSE IF TooLong(artist_name) THEN ParseErr
              ELSE ParseLines(lines, k + 1, Append(artists, artist_name))

ParseArtistsFile(content) == ParseLines(Lines(content), 1, <<>>)

\* Longest content that is enumerated character by character
MaxContent == 6

\* Names around the limit: 99, 100 and 101 ASCII characters, and 100
\* characters of which the last one takes two bytes
LongNames ==
    {Repeat("a", MaxNameLen - 1), Repeat("a", MaxNameLen),
     Repeat("a", MaxNameLen + 1), Repeat("a", MaxNameLen - 1) \o <<EAcute>>}

\* A long name on a line of its own, between two valid lines, padded, tagged
LongContents ==
    UNION {{n,
            <<"a", "\n">> \o n \o <<"\n", "a">>,
            <<" ">> \o n \o <<" ", " ">>,
            n \o <<" ", "|", "a">>,
            <<"#">> \o n \o <<"\n", "a">>} : n \in LongNames}

\* A padded and tagged entry, a blank line, a comment, an entry with an
\* empty name part and a plain entry, ended by a line feed
MixedContent ==
    <<" ", "a", " ", "a", " ", "|", "a", "\n",
      " ", "\n",
      "#", " ", "a", "|", "a", "\n",
      " ", "|", "a", "\n",
      "a", "a", "\n">>

ParseInputs == SeqsUpTo(ParseChars, MaxContent) \cup LongContents \cup {MixedContent}

ParseInit ==
    /\ pc = "parse"
    /\ config_artists = <<>>
    /\ max_retries = 0
    /\ artists_file = NoFile
    /\ dry_run = FALSE
    /\ remoteSubs = {}
    /\ cache = {}
    /\ now = 0
    /\ SyncIdle
    /\ fetch = FetchIdle
    /\ SubIdle
    /\ cache_calls = <<>>
    /\ resolve = ResolveIdle
    /\ list = ListIdle
    /\ \E content \in ParseInputs : parse = [content |-> content, result |-> None]

\* parse_artists_file(content)
CallParseArtistsFile ==
    /\ pc = "parse"
    /\ parse.result = None
    /\ parse' = [parse EXCEPT !.result = Some(ParseArtistsFile(parse.content))]
    /\ UNCHANGED <<pc, inputVars, remoteSubs, storeVars, syncVars, fetch, subVars,
                   cache_calls, resolve, list>>

ParseNext == CallParseArtistsFile

SpecParse == ParseInit /\ [][ParseNext]_vars

(***************************************************************************)
(* Properties                                                              *)
(***************************************************************************)
InSeq(s, x) == \E k \in 1..Len(s) : s[k] = x

Count(s, x) == Cardinality({k \in 1..Len(s) : s[k] = x})

RECURSIVE IsSubseq(_, _)
\* s can be obtained from t by deleting entries
IsSubseq(s, t) ==
    IF s = <<>> THEN TRUE
    ELSE IF t = <<>> THEN FALSE
    ELSE IF Head(s) = Head(t) THEN IsSubseq(Tail(s), Tail(t))
    ELSE IsSubseq(s, Tail(t))

\* cmd_sync has computed its plan
Planned == pc \in {"apply", "subscribing", "done"}

\* The case-folded names of the subscriptions the plan was computed from
FoldedCurrent ==
    {ToLowercase(current_subscriptions[k].name) : k \in 1..Len(current_subscriptions)}

\* C1: already_subscribed and to_subscribe together hold every target exactly
\* once, none in both, and a target is in already_subscribed iff its
\* case-folded name is in the case-folded current set.
ThmC1_PlanPartitionsTargets ==
    Planned =>
        /\ Len(already_subscribed) + Len(to_subscribe) = Len(target_artists)
        /\ \A k \in 1..Len(target_artists) :
             LET t == target_artists[k] IN
             /\ Count(already_subscribed, t) + Count(to_subscribe, t)
                    = Count(target_artists, t)
             /\ ~(InSeq(already_subscribed, t) /\ InSeq(to_subscribe, t))
             /\ InSeq(already_subscribed, t) <=> ToLowercase(t) \in FoldedCurrent
        /\ \A k \in 1..Len(already_subscribed) : InSeq(target_artists, already_subscribed[k])
        /\ \A k \in 1..Len(to_subscribe) : InSeq(target_artists, to_subscribe[k])

\* A plan with both lists non-empty in which a target is already subscribed
\* through a subscription whose name differs from it in case only
WitC1_MixedCasePlan ==
    /\ Planned
    /\ already_subscribed # <<>>
    /\ to_subscribe # <<>>
    /\ \E k \in 1..Len(already_subscribed) :
         \A j \in 1..Len(current_subscriptions) :
            current_subscriptions[j].name # already_subscribed[k]

\* C2: already_subscribed and to_subscribe are subsequences of the target
\* list: names of one list keep the relative order they have in the targets.
ThmC2_PlanPreservesOrder ==
    Planned =>
        /\ IsSubseq(already_subscribed, target_artists)
        /\ IsSubseq(to_subscribe, target_artists)

\* A plan whose to_subscribe holds two different names
WitC2_TwoToSubscribe ==
    /\ Planned
    /\ Len(to_subscribe) = 2
    /\ to_subscribe[1] # to_subscribe[2]

\* C3: a target is in already_subscribed only if the user's subscription
\* list on the platform holds a channel of that name.
CexC3_CurrentIsRemoteState ==
    Planned =>
        \A k \in 1..Len(already_subscribed) :
            \E id \in remoteSubs :
                ToLowercase(ChannelOf(id).title) = ToLowercase(already_subscribed[k])

\* C4: the executor is called for a target only right after that target's
\* search returned a match, with the id of the match; never for a target of
\* already_subscribed, never after a search that found nothing or failed.
ThmC4_SubscribeOnlyAfterMatch ==
    /\ \A k \in 1..Len(events) :
         events[k].kind = "subscribe" =>
            /\ k > 1
            /\ events[k - 1].kind = "search"
            /\ events[k - 1].result = "found"
            /\ events[k - 1].target = events[k].target
            /\ IsSome(events[k - 1].artist)
            /\ events[k].channel_id = Unwrap(events[k - 1].artist).channel_id
            /\ InSeq(to_subscribe, events[k].target)
            /\ ~InSeq(already_subscribed, events[k].target)
    /\ \A k \in 1..Len(events) :
         (events[k].kind = "search" /\ events[k].result # "found") =>
            (k = Len(events) \/ events[k + 1].kind = "search")
    /\ (pc # "executor" /\ sub_pc # "idle") =>
            /\ events # <<>>
            /\ events[Len(events)].kind = "subscribe"
            /\ events[Len(events)].channel_id = sub_channel

\* A finished run in which one target was matched and subscribed and
\* another one was not found or failed to resolve
WitC4_SubscribedAndSkipped ==
    /\ pc = "done"
    /\ \E k \in 1..Len(events) : events[k].kind = "subscribe"
    /\ \E k \in 1..Len(events) :
         events[k].kind = "search" /\ events[k].result \in {"not_found", "error"}

\* C5: the target list handed to the planner holds no two entries equal
\* after case folding, so no name is in to_subscribe twice and no name is
\* resolved twice in one run.
CexC5_TargetsDeduplicated ==
    Planned =>
        /\ \A j, k \in 1..Len(target_artists) :
             j # k => ToLowercase(target_artists[j]) # ToLowercase(target_artists[k])
        /\ \A j, k \in 1..Len(to_subscribe) :
             j # k => to_subscribe[j] # to_subscribe[k]
        /\ \A j, k \in 1..Len(events) :
             (j # k /\ events[j].kind = "search" /\ events[k].kind = "search")
                => events[j].target # events[k].target


\* Every insertSubscription request made so far failed with class c
AllAttemptsOf(c) ==
    /\ sub_classes # <<>>
    /\ \A k \in 1..Len(sub_classes) : sub_classes[k] = c

\* C6: a failure of the duplicate-subscription class makes subscribe return
\* success, with no further request and no delay.
ThmC6_DuplicateIsSuccess ==
    \A k \in 1..Len(sub_classes) :
        sub_classes[k] = "duplicate" =>
            /\ k = Len(sub_classes)
            /\ sub_pc = "done"
            /\ sub_result = "Ok"
            /\ attempt = k - 1
            /\ Len(sub_delays) = k - 1

\* A call that was retried and then answered with a duplicate error
WitC6_DuplicateAfterRetry ==
    /\ sub_pc = "done"
    /\ Len(sub_classes) >= 2
    /\ sub_classes[Len(sub_classes)] = "duplicate"
    /\ IsSome(error_msg)
    /\ "subscriptionDuplicate" \in Unwrap(error_msg)

\* C7: a quota / rate-limit failure of attempt a (counted from 0) that is
\* not the last allowed one is followed by a sleep of 2^a * 1000 ms and by
\* another request; at most max_retries requests are made; when every request
\* failed with that class the call ends with the quota-exceeded error, after
\* max_retries requests.
ThmC7_QuotaBackoff ==
    /\ Len(sub_classes) <= max_retries
    /\ \A k \in 1..Len(sub_classes) :
         (sub_classes[k] = "quota" /\ k < max_retries) =>
            /\ Len(sub_delays) >= k
            /\ sub_delays[k] = (2 ^ (k - 1)) * 1000
            /\ attempt >= k
            /\ (Len(sub_classes) = k => sub_pc = "loop")
    /\ (sub_pc = "done" /\ AllAttemptsOf("quota")) =>
            /\ sub_result = "QuotaExceeded"
            /\ Len(sub_classes) = max_retries

\* Four requests, all answered with a quota failure
WitC7_QuotaExhausted ==
    /\ sub_pc = "done"
    /\ max_retries = 4
    /\ Len(sub_classes) = 4
    /\ AllAttemptsOf("quota")
    /\ sub_result = "QuotaExceeded"

\* C8 as stated: with max_retries = 3 and a quota failure on every request,
\* three requests are made and the delays 1000, 2000 and 4000 ms are all
\* observed before QuotaExceeded is returned.
CexC8_ThreeDelays ==
    (max_retries = 3 /\ sub_pc = "done" /\ AllAttemptsOf("quota")) =>
        /\ Len(sub_classes) = 3
        /\ sub_delays = <<1000, 2000, 4000>>
        /\ sub_result = "QuotaExceeded"

\* C8 as amended: with max_retries = 3 and a quota failure on every request,
\* exactly three requests are made and exactly the delays 1000 and 2000 ms
\* are observed, one after each of the first two requests and none after the
\* third, before QuotaExceeded is returned.
ThmC8_TwoDelays ==
    (max_retries = 3 /\ sub_pc = "done" /\ AllAttemptsOf("quota")) =>
        /\ Len(sub_classes) = 3
        /\ attempt = 2
        /\ sub_delays = <<1000, 2000>>
        /\ sub_result = "QuotaExceeded"

\* The scenario: three quota failures with max_retries = 3
WitC8_ThreeQuotaFailures ==
    /\ max_retries = 3
    /\ sub_pc = "done"
    /\ sub_classes = <<"quota", "quota", "quota">>

\* C9: a server / backend failure of attempt a (counted from 0) that is not
\* the last allowed one is followed by a sleep of 1000 + a * 500 ms and by
\* another request; at most max_retries requests are made; when every request
\* failed with that class the call ends with the server error, after
\* max_retries requests.
ThmC9_ServerBackoff ==
    /\ Len(sub_classes) <= max_retries
    /\ \A k \in 1..Len(sub_classes) :
         (sub_classes[k] = "server" /\ k < max_retries) =>
            /\ Len(sub_delays) >= k
            /\ sub_delays[k] = 1000 + (k - 1) * 500
            /\ attempt >= k
            /\ (Len(sub_classes) = k => sub_pc = "loop")
    /\ (sub_pc = "done" /\ AllAttemptsOf("server")) =>
            /\ sub_result = "ServerError"
            /\ Len(sub_classes) = max_retries

\* Three requests, all answered with a server failure
WitC9_ServerExhausted ==
    /\ sub_pc = "done"
    /\ max_retries = 3
    /\ Len(sub_classes) = 3
    /\ AllAttemptsOf("server")
    /\ sub_delays = <<1000, 1500>>
    /\ sub_result = "ServerError"

\* C10: a failure of the permission-denied, channel-not-found or any
\* unrecognised class ends the call with an error after that one request:
\* no later request and no delay for it, whatever max_retries and the
\* attempt number are.
ThmC10_FatalClassesFailAtOnce ==
    \A k \in 1..Len(sub_classes) :
        sub_classes[k] \in {"permission", "not_found", "other"} =>
            /\ k = Len(sub_classes)
            /\ sub_pc = "done"
            /\ sub_result = (CASE sub_classes[k] = "permission" -> "PermissionDenied"
                               [] sub_classes[k] = "not_found" -> "ChannelNotFound"
                               [] OTHER -> "SubscriptionFailed")
            /\ attempt = k - 1
            /\ Len(sub_delays) = k - 1

\* An unrecognised failure on the second of four allowed attempts
WitC10_OtherOnSecondAttempt ==
    /\ max_retries = 4
    /\ sub_pc = "done"
    /\ Len(sub_classes) = 2
    /\ sub_classes[2] = "other"
    /\ sub_result = "SubscriptionFailed"

(***************************************************************************)
(* Fault containment of the two loops                                      *)
(***************************************************************************)
\* The events that close one item of the apply loop: a search that found
\* nothing or failed, or the return of subscribe_to_channel
IsOutcome(e) ==
    \/ e.kind = "search" /\ e.result # "found"
    \/ e.kind = "subscribed"

Outcomes == SelectSeq(events, IsOutcome)

\* The outcomes that are faults of one item
IsItemFault(e) ==
    \/ e.kind = "search" /\ e.result \in {"not_found", "error"}
    \/ e.kind = "subscribed" /\
       e.result \in {"ChannelNotFound", "PermissionDenied", "ServerError",
                     "SubscriptionFailed"}

\* C11: a fault of one item (name not found, search error, timeout,
\* channel-not-found, permission-denied, server error after retries) is that
\* item's outcome and never stops the loop.  In the apply loop of sync the
\* k-th outcome belongs to the k-th name of to_subscribe, the loop can always
\* take its next step, and it ends only when every name has its outcome; in
\* fetchPage the k-th log entry belongs to the k-th name of the page, the loop
\* can always take its next step, and the result is set only when every name
\* of the page has its entry.
ThmC11_ItemFaultsNeverStopTheLoop ==
    /\ pc \in {"apply", "subscribing", "done"} =>
         /\ Len(Outcomes) = idx
         /\ idx <= Len(to_subscribe)
         /\ \A k \in 1..Len(Outcomes) : Outcomes[k].target = to_subscribe[k]
    /\ pc = "apply" => idx < Len(to_subscribe) /\ ENABLED ApplySearch
    /\ pc = "subscribing" =>
         ENABLED (SubscribeAttempt(ClassMsgs) \/ SubscribeExhausted \/ ApplySubscribed)
    /\ (pc = "done" /\ ~dry_run) => Len(Outcomes) = Len(to_subscribe)
    /\ Len(fetch.log) = fetch.i
    /\ fetch.i <= Len(fetch.page_channels)
    /\ \A k \in 1..Len(fetch.log) : fetch.log[k].name = fetch.page_channels[k]
    /\ fetch.active => ENABLED (FetchItem \/ FetchFinish)
    /\ IsSome(fetch.result) => Len(fetch.log) = Len(fetch.page_channels)

\* A finished apply loop over two names whose first item failed and whose
\* second item has its outcome all the same
WitC11_SecondItemAfterFault ==
    /\ pc = "done"
    /\ Len(to_subscribe) = 2
    /\ Len(Outcomes) = 2
    /\ IsItemFault(Outcomes[1])
    /\ Outcomes[1].kind = "subscribed"
    /\ Outcomes[2].kind = "subscribed"
    /\ Outcomes[2].result = "Ok"

\* C12: once subscribe has exhausted its retries on quota failures, the run
\* is over: that outcome is the last call the apply loop makes.
CexC12_QuotaExhaustedEndsRun ==
    \A k \in 1..Len(events) :
        (events[k].kind = "subscribed" /\ events[k].result = "QuotaExceeded")
            => k = Len(events)

(***************************************************************************)
(* Cache Store                                                             *)
(***************************************************************************)
\* The successful cache_artist calls for the key of call i made before it
UpsertsBefore(i) ==
    {j \in 1..(i - 1) :
        /\ cache_calls[j].op = "cache_artist"
        /\ cache_calls[j].ok
        /\ cache_calls[j].search_name = cache_calls[i].search_name}

LatestUpsertBefore(i) ==
    CHOOSE j \in UpsertsBefore(i) : \A k \in UpsertsBefore(i) : k <= j

\* C13: after any sequence of upserts the cache holds at most one row per
\* search key, and a lookup of a key less than the expiry window after the
\* latest upsert of that key returns exactly the Artist of that upsert.
ThmC13_OneRowPerKeyLatestWins ==
    /\ \A r1, r2 \in cache : r1.search_name = r2.search_name => r1 = r2
    /\ \A i \in 1..Len(cache_calls) :
         (/\ cache_calls[i].op = "get_cached_artist"
          /\ cache_calls[i].ok
          /\ UpsertsBefore(i) # {}
          /\ cache_calls[i].at - cache_calls[LatestUpsertBefore(i)].at < CacheExpiryDays)
         => cache_calls[i].artist = cache_calls[LatestUpsertBefore(i)].artist

\* Two upserts of one key with different Artists, then a lookup that returns
\* the second
WitC13_SecondUpsertReturned ==
    /\ Len(cache_calls) = 3
    /\ cache_calls[1].op = "cache_artist" /\ cache_calls[1].ok
    /\ cache_calls[2].op = "cache_artist" /\ cache_calls[2].ok
    /\ cache_calls[1].search_name = cache_calls[2].search_name
    /\ cache_calls[1].artist # cache_calls[2].artist
    /\ cache_calls[3].op = "get_cached_artist" /\ cache_calls[3].ok
    /\ cache_calls[3].search_name = cache_calls[2].search_name
    /\ cache_calls[3].artist = cache_calls[2].artist
    /\ IsSome(cache_calls[3].artist)

LastCacheCall == cache_calls[Len(cache_calls)]

\* C14: a lookup returns the row of its key iff now - cached_at is less than
\* the expiry window; at or beyond the window it returns nothing while the
\* row stays stored: a lookup leaves the table as it was, and no step ever
\* removes the row of a key.
ThmC14_LazyExpiry ==
    /\ [](Len(cache_calls) > 0 /\ LastCacheCall.op = "get_cached_artist" /\ LastCacheCall.ok
          => (IsSome(LastCacheCall.artist)
              <=> \E row \in cache :
                     /\ row.search_name = LastCacheCall.search_name
                     /\ LastCacheCall.at - row.cached_at < CacheExpiryDays
                     /\ LastCacheCall.artist = Some(row.artist)))
    /\ [][(cache_calls' # cache_calls /\
           cache_calls'[Len(cache_calls')].op = "get_cached_artist") => cache' = cache]_vars
    /\ [][\A row \in cache : \E kept \in cache' : kept.search_name = row.search_name]_vars

\* A lookup exactly one expiry window after the upsert: nothing is returned
\* and the row is still there
WitC14_StaleRowKept ==
    /\ Len(cache_calls) > 0
    /\ LastCacheCall.op = "get_cached_artist"
    /\ LastCacheCall.ok
    /\ LastCacheCall.artist = None
    /\ \E row \in cache :
         /\ row.search_name = LastCacheCall.search_name
         /\ LastCacheCall.at - row.cached_at = CacheExpiryDays

(***************************************************************************)
(* Cache faults inside get_subscriptions_with_pagination                   *)
(***************************************************************************)
\* The Artists the logged iterations pushed, in order
PushedBy(log) ==
    LET Pushing(e) == IsSome(e.pushed)
        kept == SelectSeq(log, Pushing)
    IN  [k \in 1..Len(kept) |-> Unwrap(kept[k].pushed)]

\* C15: a cache lookup that fails behaves as a miss: the name is handed to
\* the resolver, what the resolver finds is pushed, the remaining names are
\* processed and the call returns its page, never an error.
ThmC15_LookupErrorIsMiss ==
    /\ \A k \in 1..Len(fetch.log) :
         fetch.log[k].lookup = "error" =>
            /\ fetch.log[k].search \in {"found", "not_found", "error", "timeout"}
            /\ fetch.log[k].search = "found" <=> IsSome(fetch.log[k].pushed)
    /\ fetch.artists = PushedBy(fetch.log)
    /\ (~fetch.active /\ fetch.log # <<>>) =>
         /\ IsSome(fetch.result)
         /\ Len(fetch.log) = Len(fetch.page_channels)
         /\ fetch.artists # <<>> => Unwrap(fetch.result).artists = fetch.artists

\* A returned page whose first name met a failing cache lookup and was
\* resolved all the same
WitC15_ResolvedAfterLookupError ==
    /\ IsSome(fetch.result)
    /\ Len(fetch.log) = 2
    /\ fetch.log[1].lookup = "error"
    /\ fetch.log[1].search = "found"
    /\ Unwrap(fetch.result).artists[1] = Unwrap(fetch.log[1].pushed)

\* C16: a failed cache write never aborts the call and never drops the item:
\* the resolved Artist (detailed, or basic when the detail lookup failed too)
\* is pushed all the same, the remaining names are processed, and the page
\* returned holds it.
ThmC16_CacheWriteErrorKeepsItem ==
    /\ \A k \in 1..Len(fetch.log) :
         fetch.log[k].cache_write = "error" =>
            /\ fetch.log[k].search = "found"
            /\ IsSome(fetch.log[k].pushed)
            /\ Unwrap(fetch.log[k].pushed).channel_id \in ChannelIds
            /\ \E n \in 1..Len(fetch.artists) : fetch.artists[n] = Unwrap(fetch.log[k].pushed)
    /\ (\E k \in 1..Len(fetch.log) : fetch.log[k].cache_write = "error") =>
         /\ fetch.active \/ IsSome(fetch.result)
         /\ IsSome(fetch.result) =>
              /\ Len(fetch.log) = Len(fetch.page_channels)
              /\ Unwrap(fetch.result).artists = fetch.artists

\* A returned page of two names: the cache write of the first failed, its
\* Artist is in the page, and the second name was resolved after it
WitC16_SecondNameAfterWriteError ==
    /\ IsSome(fetch.result)
    /\ Len(fetch.log) = 2
    /\ fetch.log[1].cache_write = "error"
    /\ fetch.log[2].search = "found"
    /\ Len(Unwrap(fetch.result).artists) = 2
    /\ Unwrap(fetch.result).artists[1] = Unwrap(fetch.log[1].pushed)

(***************************************************************************)
(* Name Resolver                                                           *)
(***************************************************************************)
\* The nine variations every name gets, in order
CommonVariations(n) ==
    << n,
       n \o <<" ", "b", "a", "n", "d">>,
       n \o <<" ", "m", "u", "s", "i", "c">>,
       n \o <<" ", "o", "f", "f", "i", "c", "i", "a", "l">>,
       n \o <<" ", "c", "h", "a", "n", "n", "e", "l">>,
       n \o <<"V", "E", "V", "O">>,
       n \o <<" ", "V", "E", "V", "O">>,
       n \o <<" ", "-", " ", "T", "o", "p", "i", "c">>,
       n \o <<"T", "o", "p", "i", "c">> >>

TheName(n) == <<"T", "h", "e", " ">> \o n

\* A space or a tab somewhere in the name
HasWhitespace(n) == \E k \in 1..Len(n) : n[k] \in {" ", "\t"}

HasSpace(n) == \E k \in 1..Len(n) : n[k] = " "

\* C17: variant generation returns the fixed ordered list of nine; a name
\* with no whitespace gets "<name>band" and "The <name>" appended (11), and
\* a name of several words gets the nine only, without "The <name>".
CexC17_VariationsBySingleWord ==
    resolve.pc # "idle" =>
        IF ~HasWhitespace(resolve.name)
        THEN resolve.variations =
                CommonVariations(resolve.name)
                \o << resolve.name \o <<"b", "a", "n", "d">>, TheName(resolve.name) >>
        ELSE /\ resolve.variations = CommonVariations(resolve.name)
             /\ \A k \in 1..Len(resolve.variations) :
                    resolve.variations[k] # TheName(resolve.name)

\* What the code does: the two extra variations depend on the space
\* character alone
VariationsBySpaceCharacter ==
    resolve.pc # "idle" =>
        resolve.variations =
            IF ~HasSpace(resolve.name)
            THEN CommonVariations(resolve.name)
                 \o << resolve.name \o <<"b", "a", "n", "d">>, TheName(resolve.name) >>
            ELSE CommonVariations(resolve.name)

\* The answer to the latest query
LastResponse == Unwrap(resolve.response)

\* The match policy in the words of the claim, on case-folded strings
PolicyMatch(title, target) ==
    LET t == ToLowercase(title)
        n == ToLowercase(target)
    IN  \/ t = n
        \/ \E k \in 0..(Len(t) - Len(n)) : SubSeq(t, k + 1, k + Len(n)) = n
        \/ \E k \in 0..(Len(n) - Len(t)) : SubSeq(n, k + 1, k + Len(t)) = t

\* The items of the latest response that the parser of that response can
\* accept for the original name
MatchingItems ==
    {k \in 1..Len(LastResponse.items) :
        /\ Usable(LastResponse.items[k], LastResponse.kind)
        /\ PolicyMatch(Unwrap(LastResponse.items[k].title), resolve.name)}

Answered == IsSome(resolve.response) /\ LastResponse.kind # "error"

Found == resolve.pc = "done" /\ Unwrap(resolve.result).kind = "found"

\* C18: a candidate title matches iff, after case folding, it equals the
\* original target name, contains it, or is contained in it; the comparison
\* is against the original name whatever variation was sent.  So a query is
\* answered with a match exactly when some item of its response matches the
\* original name, and the accepted Artist's name is such a title.
ThmC18_MatchAgainstOriginalName ==
    Answered =>
        /\ Found <=> MatchingItems # {}
        /\ Found => PolicyMatch(Unwrap(Unwrap(resolve.result).artist).name, resolve.name)

\* "Muse" found through the title "Muse - Topic" in the answer to the
\* variation "Muse band", which that title does not match
WitC18_TopicTitleOnVariation ==
    /\ Found
    /\ resolve.name = Muse
    /\ Len(resolve.queries) = 2
    /\ Unwrap(Unwrap(resolve.result).artist).name = MuseTopic
    /\ ~PolicyMatch(MuseTopic, resolve.queries[2])

\* C19: resolution accepts the first matching candidate, in result order,
\* of the first variation, in variation order, whose answer holds a match,
\* and stops: the variations are queried in order, one query each; the loop
\* moves on only from an answer without a match; on a match the result is
\* the first matching item of that answer and no further step is taken.
ThmC19_FirstMatchOfFirstVariation ==
    /\ resolve.queries = SubSeq(resolve.variations, 1, Len(resolve.queries))
    /\ resolve.pc = "loop" => Len(resolve.queries) = resolve.attempt
    /\ (resolve.pc = "loop" /\ Answered) => MatchingItems = {}
    /\ Found =>
         /\ Len(resolve.queries) = resolve.attempt + 1
         /\ \E k \in MatchingItems :
              /\ \A j \in MatchingItems : k <= j
              /\ Unwrap(resolve.result).artist =
                     Some(ItemArtist(LastResponse.items[k], LastResponse.kind))
    /\ resolve.pc = "done" => ~ENABLED ResolveNext

\* A match on the third variation, in an answer of two matching items of
\* different channels: the first is the result
WitC19_FirstOfTwoOnThirdVariation ==
    /\ Found
    /\ Len(resolve.queries) = 3
    /\ MatchingItems = {1, 2}
    /\ LastResponse.items[1].channel_id # LastResponse.items[2].channel_id
    /\ Unwrap(Unwrap(resolve.result).artist).channel_id
           = Unwrap(LastResponse.items[1].channel_id)

\* C20: when every variation was queried successfully and none of the
\* answers held a match, the result is "not found" (Ok(None)), not an error.
ThmC20_NoMatchIsNotFound ==
    /\ (/\ resolve.pc = "done"
        /\ Len(resolve.queries) = Len(resolve.variations)
        /\ Answered
        /\ MatchingItems = {})
       => resolve.result = Some([kind |-> "not_found", artist |-> None])
    /\ (resolve.pc = "done" /\ Unwrap(resolve.result).kind = "not_found")
       => /\ resolve.queries = resolve.variations
          /\ Answered
          /\ MatchingItems = {}

\* All eleven variations of a single-word name answered without a match
WitC20_ElevenQueriesNotFound ==
    /\ resolve.pc = "done"
    /\ Len(resolve.queries) = 11
    /\ Answered
    /\ Len(LastResponse.items) = 2
    /\ Unwrap(resolve.result).kind = "not_found"

\* C21: the resolver returns an error only after all variations have been
\* exhausted: a failed query does not end the resolution, the remaining
\* variations are still tried.
CexC21_ErrorOnlyAfterAllVariations ==
    (resolve.pc = "done" /\ Unwrap(resolve.result).kind = "error")
        => Len(resolve.queries) = Len(resolve.variations)

(***************************************************************************)
(* Batch Fetch Orchestrator                                                *)
(***************************************************************************)
\* The basic matches a search for a name can give
BasicMatches(name) ==
    {[name |-> ch.title, channel_id |-> ch.channel_id,
      subscriber_count |-> None, description |-> ch.description] :
        ch \in {c \in RemoteChannels : PolicyMatch(c.title, name)}}

\* C22: when a name is matched but the channel-detail lookup fails, the
\* basic match (title and channel id, no subscriber count) is what the
\* iteration yields, and the page returned holds it.
ThmC22_BasicMatchOnDetailError ==
    /\ \A k \in 1..Len(fetch.log) :
         fetch.log[k].details = "error" =>
            /\ fetch.log[k].search = "found"
            /\ IsSome(fetch.log[k].pushed)
            /\ Unwrap(fetch.log[k].pushed) \in BasicMatches(fetch.log[k].name)
            /\ \E n \in 1..Len(fetch.artists) : fetch.artists[n] = Unwrap(fetch.log[k].pushed)
    /\ (IsSome(fetch.result) /\ fetch.artists # <<>>) =>
         Unwrap(fetch.result).artists = fetch.artists
    /\ (~fetch.active /\ fetch.log # <<>>) => IsSome(fetch.result)

\* "Tool" matched, its detail lookup failed: the page holds the channel
\* without the subscriber count the platform has for it
WitC22_ToolWithoutCount ==
    /\ IsSome(fetch.result)
    /\ Len(fetch.log) = 1
    /\ fetch.log[1].details = "error"
    /\ Len(Unwrap(fetch.result).artists) = 1
    /\ Unwrap(fetch.result).artists[1].channel_id = "UC_tool"
    /\ Unwrap(fetch.result).artists[1].subscriber_count = None
    /\ ChannelOf("UC_tool").subscriber_count # None

\* The iteration a step of the loop has just logged
NewEntry == fetch'.log[Len(fetch'.log)]

IterationStep == fetch.active /\ fetch'.i = fetch.i + 1

\* The rows of a name that a lookup made now would return
FreshRowsOf(name) ==
    {row \in cache : row.search_name = name /\ now - row.cached_at < CacheExpiryDays}

\* C23: without force refresh, a name with a fresh cache entry is served
\* from the cache: the cached Artist is appended, and for that item there is
\* no search, no detail lookup, no cache write and no delay.
ThmC23_FreshHitSkipsResolution ==
    [][IterationStep =>
        /\ (~fetch.force_update /\ FreshRowsOf(NewEntry.name) # {}
            /\ NewEntry.lookup # "error") => NewEntry.lookup = "hit"
        /\ NewEntry.lookup = "hit" =>
             /\ ~fetch.force_update
             /\ \E row \in FreshRowsOf(NewEntry.name) :
                    fetch'.artists = Append(fetch.artists, row.artist)
             /\ NewEntry.search = "none"
             /\ NewEntry.details = "none"
             /\ NewEntry.cache_write = "none"
             /\ ~NewEntry.slept
             /\ cache' = cache]_vars

\* A page of two names: the first served from the cache, the second searched
WitC23_HitThenSearch ==
    /\ IsSome(fetch.result)
    /\ ~fetch.force_update
    /\ Len(fetch.log) = 2
    /\ fetch.log[1].lookup = "hit"
    /\ fetch.log[2].lookup = "miss"
    /\ fetch.log[2].slept
    /\ Unwrap(fetch.result).artists[1] = Unwrap(fetch.log[1].pushed)

\* C24: with force refresh the cache is never read: every name of the page
\* is sent to the resolver even when a fresh entry exists, and a resolution
\* whose cache write succeeds replaces that entry.
ThmC24_ForceRefreshBypassesCache ==
    [][(IterationStep /\ fetch.force_update) =>
        /\ NewEntry.lookup = "skipped"
        /\ NewEntry.search \in {"found", "not_found", "error", "timeout"}
        /\ NewEntry.cache_write = "ok" =>
             {row \in cache' : row.search_name = NewEntry.name}
                = {[search_name |-> NewEntry.name,
                    artist |-> Unwrap(NewEntry.pushed),
                    cached_at |-> now]}
        /\ NewEntry.cache_write # "ok" => cache' = cache]_vars

\* The same name twice on a forced page: the second is searched although the
\* first has just been cached, and its Artist replaces the first's row
WitC24_FreshEntryOverwritten ==
    /\ fetch.force_update
    /\ Len(fetch.log) = 2
    /\ fetch.log[1].name = fetch.log[2].name
    /\ fetch.log[1].cache_write = "ok"
    /\ fetch.log[2].search = "found"
    /\ fetch.log[2].cache_write = "ok"
    /\ fetch.log[1].pushed # fetch.log[2].pushed
    /\ \A row \in cache : row.search_name = fetch.log[2].name
                            => Some(row.artist) = fetch.log[2].pushed

CexC26_HasMoreByReturnedCount ==
    (IsSome(fetch.result) /\ fetch.limit > 0) =>
        (Unwrap(fetch.result).has_more
            <=> fetch.offset + Len(Unwrap(fetch.result).artists) < Unwrap(fetch.result).total)

\* C26, as the code has it: has_more is true iff at least one name of the
\* page yielded an Artist and offset + (number of names in the page slice)
\* is less than the total count; the total is the number of names of the
\* source, or the size of the placeholder set when that is returned.
ThmC26_HasMoreByPageSlice ==
    IsSome(fetch.result) =>
        /\ Unwrap(fetch.result).has_more
             <=> (/\ \E k \in 1..Len(fetch.log) : IsSome(fetch.log[k].pushed)
                  /\ fetch.offset + Len(fetch.page_channels) < fetch.total_channels)
        /\ Unwrap(fetch.result).total =
             IF \/ \E k \in 1..Len(fetch.log) : IsSome(fetch.log[k].pushed)
                \/ (fetch.page_channels = <<>> /\ artists_file.kind \notin {"missing", "bad"})
             THEN fetch.total_channels
             ELSE 2

\* The page is the whole list, one of its two names did not resolve:
\* has_more is false although offset + returned count is below the total
WitC26_UnresolvedNameOnLastPage ==
    /\ IsSome(fetch.result)
    /\ fetch.offset = 0
    /\ Len(fetch.page_channels) = 2
    /\ Unwrap(fetch.result).total = 2
    /\ Len(Unwrap(fetch.result).artists) = 1
    /\ ~Unwrap(fetch.result).has_more

\* C27: a non-empty page slice none of whose names yields an Artist is
\* answered with the fixed placeholder set; an empty list is returned only
\* when the slice itself is empty.
ThmC27_PlaceholderForEmptyBatch ==
    IsSome(fetch.result) =>
        /\ (fetch.page_channels # <<>> /\
            \A k \in 1..Len(fetch.log) : fetch.log[k].pushed = None)
           => /\ Len(Unwrap(fetch.result).artists) = 2
              /\ Unwrap(fetch.result).artists[1].name = LetsGetRusty
              /\ Unwrap(fetch.result).artists[1].channel_id = "mock_id_1"
              /\ Unwrap(fetch.result).artists[2].name = MarquesBrownlee
              /\ Unwrap(fetch.result).artists[2].channel_id = "mock_id_2"
        /\ Unwrap(fetch.result).artists = <<>>
           => /\ fetch.page_channels = <<>>
              /\ fetch.log = <<>>

\* Two names, one not found and one timed out: the placeholder set
WitC27_TwoMissesGivePlaceholder ==
    /\ IsSome(fetch.result)
    /\ Len(fetch.log) = 2
    /\ fetch.log[1].search = "not_found"
    /\ fetch.log[2].search = "timeout"
    /\ Unwrap(fetch.result).artists = MockSubscriptions

(***************************************************************************)
(* Sync flow and the Cache Store                                           *)
(***************************************************************************)
\* C28: in the sync flow every to_subscribe target is resolved through the
\* Batch Fetch Orchestrator, so a successful resolution is in the Cache
\* Store from then on, whatever the subscribe call that follows returns.
CexC28_SyncResolutionIsCached ==
    \A k \in 1..Len(events) :
        (events[k].kind = "search" /\ events[k].result = "found") =>
            \E row \in cache :
                /\ row.search_name = events[k].target
                /\ row.artist.channel_id = Unwrap(events[k].artist).channel_id

(***************************************************************************)
(* Target list parsing                                                     *)
(***************************************************************************)
\* Positions of the line feeds of a content
Breaks(content) == {k \in 1..Len(content) : content[k] = "\n"}

\* The i-th line feed
NthBreak(content, i) ==
    CHOOSE k \in Breaks(content) :
        Cardinality({j \in Breaks(content) : j < k}) = i - 1

\* Every line feed ends a line; text after the last one is a line too
LineCount(content) ==
    Cardinality(Breaks(content))
        + (IF content # <<>> /\ content[Len(content)] # "\n" THEN 1 ELSE 0)

LineAt(content, i) ==
    SubSeq(content,
           IF i = 1 THEN 1 ELSE NthBreak(content, i - 1) + 1,
           IF i <= Cardinality(Breaks(content))
           THEN NthBreak(content, i) - 1
           ELSE Len(content))

Least(S) == CHOOSE x \in S : \A y \in S : x <= y
Greatest(S) == CHOOSE x \in S : \A y \in S : y <= x

\* The text from its first to its last character that is not white space
Trimmed(s) ==
    LET ink == {k \in 1..Len(s) : s[k] \notin {" ", "\t"}} IN
    IF ink = {} THEN <<>> ELSE SubSeq(s, Least(ink), Greatest(ink))

\* The trimmed text before the first '|' of a trimmed line
NamePart(t) ==
    LET pipes == {k \in 1..Len(t) : t[k] = "|"} IN
    IF pipes = {} THEN t ELSE Trimmed(SubSeq(t, 1, Least(pipes) - 1))

\* Lines that are neither blank nor a comment and whose name part is not empty
EntryLines(content) ==
    {i \in 1..LineCount(content) :
        LET t == Trimmed(LineAt(content, i)) IN
        t # <<>> /\ t[1] # "#" /\ NamePart(t) # <<>>}

\* The names of the entries, in input order
EntryNames(content) ==
    [n \in 1..Cardinality(EntryLines(content)) |->
        LET i == CHOOSE l \in EntryLines(content) :
                     Cardinality({j \in EntryLines(content) : j < l}) = n - 1
        IN NamePart(Trimmed(LineAt(content, i)))]

\* C29: parsing fails as a whole, with no names returned, when an entry's
\* name is longer than 100 characters, and succeeds when every name has at
\* most 100 characters: 100 characters are accepted and 101 fail, whatever the
\* other lines are.
CexC29_LimitOfHundredCharacters ==
    parse.result # None =>
        LET names == EntryNames(parse.content) IN
        /\ (\E n \in 1..Len(names) : Len(names[n]) > MaxNameLen)
               => Unwrap(parse.result) = ParseErr
        /\ (\A n \in 1..Len(names) : Len(names[n]) <= MaxNameLen)
               => Unwrap(parse.result).ok

\* C30: a successful parse returns, in input order, the trimmed text before
\* the first '|' of every line that is neither blank nor a '#' comment and
\* whose name part is not empty; a line with an empty name part never fails
\* the parse; input of comments and blank lines only gives the empty list.
ThmC30_NamesInInputOrder ==
    parse.result # None =>
        LET names == EntryNames(parse.content)
            r == Unwrap(parse.result)
        IN /\ r.ok => r.artists = names
           /\ (\A n \in 1..Len(names) : ~TooLong(names[n])) => r.ok
           /\ (\A i \in 1..LineCount(parse.content) :
                  LET t == Trimmed(LineAt(parse.content, i)) IN
                  t = <<>> \/ t[1] = "#")
                  => r = ParseOk(<<>>)

\* Five lines, two of them entries: the padded tagged one and the plain one
WitC30_TwoEntriesOfFiveLines ==
    /\ parse.content = MixedContent
    /\ parse.result = Some(ParseOk(<<<<"a", " ", "a">>, <<"a", "a">>>>))


(***************************************************************************)
(* Fatal and per-item errors of the flows                                  *)
(***************************************************************************)
\* C31: a target list that does not parse is fatal in every flow that reads
\* it: get_subscriptions_with_pagination, through which the list and goto
\* flows read the file, returns no result for it (the run ends with the
\* error), and in particular none made of substitute data.
CexC31_ParseErrorIsFatal ==
    artists_file.kind = "bad" => fetch.result = None

\* Position of the first x in s, 0 if there is none
Position(s, x) ==
    IF InSeq(s, x) THEN Least({k \in 1..Len(s) : s[k] = x}) ELSE 0

\* C32: when a name of the page is resolved, the Artist is written to the
\* cache under the name as it stands in the target list, not under the title
\* of the resolved channel, and the write is attempted before the Artist is
\* appended to the result; an iteration whose name is not found, times out or
\* fails leaves the cache as it was.
ThmC32_UpsertUnderSuppliedName ==
    [][IterationStep =>
        LET channel_name == fetch.page_channels[fetch.i + 1] IN
        /\ NewEntry.search = "found" =>
             /\ NewEntry.cache_write \in {"ok", "error"}
             /\ Position(NewEntry.calls, "cache_artist") > 0
             /\ Position(NewEntry.calls, "cache_artist") < Position(NewEntry.calls, "push")
             /\ NewEntry.cache_write = "ok" =>
                  cache' = {row \in cache : row.search_name # channel_name}
                           \cup {[search_name |-> channel_name,
                                  artist |-> Unwrap(NewEntry.pushed),
                                  cached_at |-> now]}
             /\ NewEntry.cache_write = "error" => cache' = cache
        /\ NewEntry.search # "found" =>
             /\ cache' = cache
             /\ Position(NewEntry.calls, "cache_artist") = 0
    ]_vars

\* "tool" resolved to the channel titled "Tool" and cached under "tool";
\* the next name was not found
WitC32_LowerCaseKeyForTool ==
    /\ Len(fetch.log) = 2
    /\ fetch.log[1].name = tool
    /\ fetch.log[1].search = "found"
    /\ fetch.log[1].cache_write = "ok"
    /\ fetch.log[2].search = "not_found"
    /\ \E row \in cache :
         /\ row.search_name = tool
         /\ row.artist.name = Tool
         /\ Some(row.artist) = fetch.log[1].pushed
    /\ \A row \in cache : row.search_name # Tool

\* C33: the inter-request delay is slept after each processed name of the
\* page slice, cache hit or miss alike: the delays are as many as the names
\* processed so far.
CexC33_DelayAfterEveryItem ==
    /\ Cardinality({k \in 1..Len(fetch.log) : fetch.log[k].slept}) = fetch.i
    /\ \A k \in 1..Len(fetch.log) : Count(fetch.log[k].calls, "sleep") = 1

\* The delay follows every iteration that reached the search, and only those
DelayAfterEverySearch ==
    \A k \in 1..Len(fetch.log) :
        /\ fetch.log[k].slept <=> fetch.log[k].lookup # "hit"
        /\ fetch.log[k].slept <=> fetch.log[k].search # "none"

\* C34: every query of a resolution has its own timeout, and its expiry
\* fails that query only: the variations after it are still tried, so a
\* resolution that ends without a match and without a request error has
\* queried every variation of the name.
CexC34_TimeoutFailsOneAttemptOnly ==
    (/\ IsSome(resolve.result)
     /\ Unwrap(resolve.result).kind \in {"timeout", "not_found"})
        => resolve.queries = resolve.variations

(***************************************************************************)
(* Subscription Executor: bounds and classification                        *)
(***************************************************************************)
\* C35: subscribe makes at most max_retries insertSubscription requests and
\* always comes to its end; with max_retries = 0 it makes no request and
\* returns an error; every delay is followed by a request, so that a
\* retryable failure of the last allowed attempt is not followed by a delay.
ThmC35_AtMostMaxRetriesRequests ==
    /\ [](/\ Len(sub_classes) <= max_retries
          /\ Len(sub_delays) <= Len(sub_classes)
          /\ sub_pc = "done" =>
               /\ sub_result # "none"
               /\ max_retries = 0 =>
                    (sub_classes = <<>> /\ sub_delays = <<>>
                     /\ sub_result = "FailedAfterAttempts")
               /\ sub_classes # <<>> => Len(sub_delays) = Len(sub_classes) - 1
               /\ max_retries > 0 => Len(sub_delays) <= max_retries - 1)
    /\ (sub_pc = "loop" ~> sub_pc = "done")

\* Four requests with max_retries = 4, a quota failure first and a server
\* failure last: three delays, none after the last failure
WitC35_ServerFailureOnLastAttempt ==
    /\ sub_pc = "done"
    /\ max_retries = 4
    /\ Len(sub_classes) = 4
    /\ sub_classes[1] = "quota"
    /\ sub_classes[4] = "server"
    /\ Len(sub_delays) = 3
    /\ sub_result = "ServerError"

\* The classes in the order in which their markers are looked for
ClassOrder == <<"quota", "permission", "not_found", "duplicate", "server">>

MarkersOf(class) ==
    CASE class = "quota" -> {"quotaExceeded", "rateLimitExceeded"}
      [] class = "permission" -> {"forbidden", "403"}
      [] class = "not_found" -> {"channelNotFound", "404"}
      [] class = "duplicate" -> {"subscriptionDuplicate", "already subscribed"}
      [] class = "server" -> {"backend", "internal"}

\* The first class of ClassOrder one of whose markers the message carries
FirstClass(msg) ==
    LET hits == {k \in 1..Len(ClassOrder) : MarkersOf(ClassOrder[k]) \cap msg # {}} IN
    IF hits = {} THEN "other" ELSE ClassOrder[Least(hits)]

\* C36: an error message is classified by the first match in the order
\* quota/rate-limit, permission-denied, channel-not-found, duplicate, server:
\* a message with a quota marker and "403" is handled as quota (retried while
\* attempts remain), and a message with a duplicate marker and "403" or "404"
\* never returns success: without an earlier class's marker it ends the call
\* with PermissionDenied or ChannelNotFound.
ThmC36_FirstMatchInFixedOrder ==
    IsSome(error_msg) =>
        LET msg == Unwrap(error_msg)
            class == sub_classes[Len(sub_classes)]
        IN /\ class = FirstClass(msg)
           /\ (MarkersOf("quota") \cap msg # {} /\ "403" \in msg) =>
                /\ class = "quota"
                /\ sub_pc = "done" => (sub_result = "QuotaExceeded"
                                       /\ Len(sub_classes) = max_retries)
                /\ Len(sub_classes) < max_retries => sub_pc = "loop"
           /\ (/\ MarkersOf("duplicate") \cap msg # {}
               /\ "403" \in msg
               /\ MarkersOf("quota") \cap msg = {}) =>
                (sub_pc = "done" /\ sub_result = "PermissionDenied")
           /\ (/\ MarkersOf("duplicate") \cap msg # {}
               /\ "404" \in msg
               /\ (MarkersOf("quota") \cup MarkersOf("permission")) \cap msg = {}) =>
                (sub_pc = "done" /\ sub_result = "ChannelNotFound")
           /\ (MarkersOf("duplicate") \cap msg # {} /\ {"403", "404"} \cap msg # {}) =>
                sub_result # "Ok"

\* A quota failure was retried and the second request failed with a message
\* carrying "already subscribed" and "404"
WitC36_DuplicateWith404Fails ==
    /\ sub_pc = "done"
    /\ sub_classes = <<"quota", "not_found">>
    /\ error_msg = Some({"already subscribed", "404"})
    /\ sub_result = "ChannelNotFound"
    /\ sub_channel \notin remoteSubs

(***************************************************************************)
(* The total of a page and the listing                                     *)
(***************************************************************************)
\* The target list a call reads: the parsed file, or config.artists
AllTargets == IF artists_file.kind = "ok" THEN artists_file.names ELSE config_artists

\* C37: whenever a target list could be read, the total returned with a page
\* is the number of names of the full list, in every outcome: empty slice,
\* page resolved in full or in part, placeholder fallback.
CexC37_TotalIsLengthOfTargetList ==
    (IsSome(fetch.result) /\ artists_file.kind \in {"none", "ok"})
        => Unwrap(fetch.result).total = Len(AllTargets)

\* The total is the length of the list except in the placeholder fallback
TotalOutsideFallback ==
    (/\ IsSome(fetch.result)
     /\ artists_file.kind \in {"none", "ok"}
     /\ (fetch.log = <<>> \/ fetch.artists # <<>>))
        => Unwrap(fetch.result).total = Len(AllTargets)

\* Every page was asked for at the next multiple of the page size
OffsetsArePageStarts ==
    /\ list.offsets = [k \in 1..Len(list.offsets) |-> (k - 1) * list.limit]
    /\ list.processed = SubSeq(AllTargets, 1, Len(list.processed))

\* C38: when every "Show next" prompt is accepted, the pages are fetched at
\* the offsets 0, limit, 2*limit, ... and the listing ends only when every
\* name of the target list has been processed, a page none of whose names
\* resolves being followed by the later pages like any other.
CexC38_ListingCoversEveryName ==
    (/\ list.pc = "done"
     /\ ~list.declined
     /\ artists_file.kind \in {"none", "ok"})
        => /\ list.offsets = [k \in 1..Len(list.offsets) |-> (k - 1) * list.limit]
           /\ list.processed = AllTargets

(***************************************************************************)
(* Dry run                                                                 *)
(***************************************************************************)
\* C39: in dry-run mode the sync flow computes the plan and stops there: no
\* to_subscribe target is searched, the Subscription Executor is never
\* called, and the remote subscriptions stay as they were, for every target
\* list and every current set.
ThmC39_DryRunChangesNothing ==
    /\ [](dry_run =>
            /\ events = <<>>
            /\ pc \notin {"apply", "subscribing"}
            /\ sub_pc = "idle"
            /\ sub_classes = <<>>
            /\ pc = "done" =>
                 Len(already_subscribed) + Len(to_subscribe) = Len(target_artists))
    /\ [][dry_run => remoteSubs' = remoteSubs]_vars

\* A dry run that ended with two targets to subscribe to and none touched
WitC39_DryRunWithTwoPlanned ==
    /\ dry_run
    /\ pc = "done"
    /\ Len(to_subscribe) = 2
    /\ to_subscribe[1] # to_subscribe[2]
    /\ events = <<>>
    /\ remoteSubs = {}

============================================================================
